---- MODULE Spec2Model ----
(***************************************************************************)
(* A model of the resilience middleware of alx-backend-python:             *)
(*   python-decorators-0x01/1-with_db_connection.py   with_db_connection   *)
(*   python-decorators-0x01/2-transactional.py        transactional        *)
(*   python-decorators-0x01/3-retry_on_failure.py     retry_db_operation   *)
(*   python-decorators-0x01/4-cache_query.py          cache_query          *)
(*   python-context-async-perations-0x02/0-databaseconnection.py           *)
(* and of its lazy streaming pipeline:                                     *)
(*   python-generators-0x00/0-stream_users.py         stream_users         *)
(*   python-generators-0x00/1-batch_processing.py     stream_users_in_     *)
(*                                       batches, batch_processing         *)
(*   python-generators-0x00/2-lazy_paginate.py        paginate_users,      *)
(*                                       lazy_pagination                   *)
(*   python-generators-0x00/4-stream_ages.py          stream_user_ages,    *)
(*                                       compute_average_age               *)
(* Each wrapper and generator is a small state machine whose position (a   *)
(* pc variable) follows its Python source.  The wrapped operation and      *)
(* the store are the environment: what the operation does (its writes, its *)
(* return value, the error it raises) and which store calls fail are       *)
(* chosen nondeterministically.                                            *)
(***************************************************************************)
EXTENDS Integers, Sequences, FiniteSets, TLC

\* ------------------------------------------------------------------ bounds
MaxCalls == 2        \* calls made through the transactional wrapper
MaxWrites == 2       \* statements one wrapped operation executes
NumUsers == 2        \* rows of the users table
MaxRetries == 3      \* largest value of the retries parameter
MaxDelay == 2        \* largest value of the delay parameter
NumQueries == 2      \* distinct non-empty query texts
MaxCacheCalls == 2   \* calls the concurrent callers make through the cache wrapper, in all
MaxSeqCalls == 3     \* calls a single caller makes, one after the other
MaxScopeCalls == 3   \* connection scopes entered one after the other
MaxRows == 3         \* rows of the user_data table
MaxSize == 3         \* largest batch_size and page_size
MaxUsers == 2        \* rows of the users table read by fetch_concurrently
MaxFile == 2         \* records in one input file of insert_data
MaxPath == 3         \* keys in a path given to access_nested_map
MaxMsgs == 2         \* messages created through the chat API
MaxPayload == 3      \* entries of a participants_id payload
MaxInserts == 1      \* rows other clients have inserted into a paginated table
MaxStackCalls == 2   \* calls of update_user_email as decorated

VARIABLES
    \* the store, and one call through transactional
    db, tpc, tconn, texc, tret, tout, tlog, tdb0, tfunc, tcalls,
    \* one call through retry_db_operation
    rpc, retries, delay, attempt, last_exception, rlog, rplan, rout,
    \* cache_query: the closure's cache and its callers
    cache, cpc, ccall, ckey, cresult, cout, cinv, chist, cret, copen, cnext,
    \* connection scopes: with_db_connection and DatabaseConnection
    spc, skind, sconn, sself, sopen, spend, sout, slog, scalls,
    \* one cursor generator (stream_users, stream_users_in_batches,
    \* stream_user_ages) and its consumer
    gpc, gfn, gcons, gsize, gdata, gconn, gpos, glog, gout, gexc, gpulls,
    \* batch_processing over stream_users_in_batches
    bpc, bidx, bexam, bout, bpulls,
    \* compute_average_age over stream_user_ages
    apc, total, count, aout,
    \* lazy_pagination over paginate_users
    ppc, psize, offset, pdata, pconns, plog, page, pout, pexc, ppulls,
    \* fetch_concurrently and its two tasks
    fpc, ftable, fconns, flog, ferr, fout, kpc, kconn, kres, kexc,
    \* seed.insert_data: the user_data table and one load
    utable, lview, lpc, lfile, li, ltab0, lrepeat, lins,
    \* utils.access_nested_map
    npc, nested_map, path, ni, nmap0, nout,
    \* messaging_app/chats: conversations, messages, last request and response
    participants, messages, sent, hreq, hresp,
    \* 1-execute.py: one with statement over ExecuteQuery
    epc, etable, eparam, econn, ecursor, eresults, epend, eout, elog,
    \* update_user_email under with_db_connection and transactional
    upc, uargs, uconns, ulog, uexc, uout, ucalls

txnVars == <<db, tpc, tconn, texc, tret, tout, tlog, tdb0, tfunc, tcalls>>
retryVars == <<rpc, retries, delay, attempt, last_exception, rlog, rplan, rout>>
cacheVars == <<cache, cpc, ccall, ckey, cresult, cout, cinv, chist, cret, copen, cnext>>
scopeVars == <<spc, skind, sconn, sself, sopen, spend, sout, slog, scalls>>
genVars == <<gpc, gfn, gcons, gsize, gdata, gconn, gpos, glog, gout, gexc, gpulls,
             bpc, bidx, bexam, bout, bpulls, apc, total, count, aout>>
pageVars == <<ppc, psize, offset, pdata, pconns, plog, page, pout, pexc, ppulls>>
concVars == <<fpc, ftable, fconns, flog, ferr, fout, kpc, kconn, kres, kexc>>
loadVars == <<utable, lview, lpc, lfile, li, ltab0, lrepeat, lins>>
accessVars == <<npc, nested_map, path, ni, nmap0, nout>>
chatVars == <<participants, messages, sent, hreq, hresp>>
execVars == <<epc, etable, eparam, econn, ecursor, eresults, epend, eout, elog>>
stackVars == <<upc, uargs, uconns, ulog, uexc, uout, ucalls>>
vars == <<txnVars, retryVars, cacheVars, scopeVars, genVars, pageVars, concVars, loadVars,
          accessVars, chatVars, execVars, stackVars>>

\* ------------------------------------------------------- values and errors
Users == 1..NumUsers
Emails == {"a", "b"}
Values == {"v1", "v2"}
NoVal == "none"

\* An exception object: its class, where it was raised, and (for the retry
\* wrapper) the attempt that raised it.
Exc(cls, src, at) == [cls |-> cls, src |-> src, at |-> at]
NoExc == Exc("none", "none", 0)

\* The classes the wrapped operation raises: the store's operational error
\* and other errors, all subclasses of Exception.
FuncErrors == {"OperationalError", "ValueError"}

\* What the wrapped operation of the current transactional call did (tfunc):
\* the statements it executed, whether they left uncommitted changes, and
\* how it ended.
\* The outcome of a call as its caller sees it.  cause is the raised
\* exception's explicit cause (raise ... from ...): no wrapper sets one.
NoOutcome == [kind |-> "none", value |-> NoVal, exc |-> NoExc, cause |-> NoExc]
Returned(v) == [kind |-> "return", value |-> v, exc |-> NoExc, cause |-> NoExc]
Raised(e) == [kind |-> "raise", value |-> NoVal, exc |-> e, cause |-> NoExc]

\* ------------------------------------------------------- the sqlite3 store
\* A connection: open or closed, inside a transaction or not, and its own
\* view of the table (the committed rows plus its uncommitted writes).
NoConn == [open |-> FALSE, intxn |-> FALSE, view |-> [u \in Users |-> "a"]]
Connect(store) == [open |-> TRUE, intxn |-> FALSE, view |-> store]
ExecBegin(c) == [c EXCEPT !.intxn = TRUE]
ExecUpdate(c, u, e) == [c EXCEPT !.view[u] = e]
\* rollback() discards the connection's uncommitted writes.
Rollback(c, store) == [c EXCEPT !.intxn = FALSE, !.view = store]
\* close() of a connection with an open transaction discards its writes.
Close(c, store) == [open |-> FALSE, intxn |-> FALSE, view |-> store]
\* commit() publishes the view.
Committed(c) == c.view

\* The store calls a wrapper issued, in order: "connect", "BEGIN", "stmt",
\* "commit", "rollback", "close"; a call that failed carries a trailing "!".
Count(log, evs) == Cardinality({i \in 1..Len(log) : log[i] \in evs})

\* --------------------------------------------------------------- Init
InitTxn ==
    /\ db = [u \in Users |-> "a"]
    /\ tpc = "idle"
    /\ tconn = NoConn
    /\ texc = NoExc
    /\ tret = NoVal
    /\ tout = NoOutcome
    /\ tlog = <<>>
    /\ tdb0 = [u \in Users |-> "a"]
    /\ tfunc = [writes |-> 0, dirty |-> FALSE, outcome |-> "none", value |-> NoVal, exc |-> NoExc]
    /\ tcalls = 0

nonTxn ==
    <<retryVars, cacheVars, scopeVars, genVars, pageVars, concVars, loadVars,
      accessVars, chatVars, execVars, stackVars>>

\* ------------------------------------------------- transactional.wrapper
\* line 9: conn = sqlite3.connect('users.db'), outside the try: a failure
\* to connect propagates with no connection opened.
TxnCall ==
    /\ tpc \in {"idle", "done"}
    /\ tcalls < MaxCalls
    /\ tcalls' = tcalls + 1
    /\ tdb0' = db
    /\ texc' = NoExc
    /\ tret' = NoVal
    /\ tfunc' = [writes |-> 0, dirty |-> FALSE, outcome |-> "none", value |-> NoVal, exc |-> NoExc]
    /\ \/ /\ tconn' = Connect(db)
          /\ tlog' = <<"connect">>
          /\ tout' = NoOutcome
          /\ tpc' = "begin"
       \/ /\ tconn' = NoConn
          /\ tlog' = <<>>
          /\ tout' = Raised(Exc("OperationalError", "connect", 0))
          /\ tpc' = "done"
    /\ UNCHANGED <<db, nonTxn>>

\* line 12: conn.execute('BEGIN;'); a failure is caught by the except clause.
TxnBegin ==
    /\ tpc = "begin"
    /\ \/ /\ tconn' = ExecBegin(tconn)
          /\ tlog' = Append(tlog, "BEGIN")
          /\ tpc' = "func"
          /\ texc' = texc
       \/ /\ tconn' = tconn
          /\ tlog' = Append(tlog, "BEGIN!")
          /\ tpc' = "except"
          /\ texc' = Exc("OperationalError", "begin", 0)
    /\ UNCHANGED <<db, tret, tout, tdb0, tfunc, tcalls, nonTxn>>

\* line 14, inside func: one statement of the wrapped operation, as
\* update_user_email's UPDATE (line 33), on the wrapper's connection.
TxnFuncWrite(u, e) ==
    /\ tpc = "func"
    /\ tfunc.writes < MaxWrites
    /\ tconn' = ExecUpdate(tconn, u, e)
    /\ tlog' = Append(tlog, "stmt")
    /\ tfunc' = [tfunc EXCEPT !.writes = @ + 1,
                              !.dirty = (ExecUpdate(tconn, u, e).view # db)]
    /\ UNCHANGED <<db, tpc, texc, tret, tout, tdb0, tcalls, nonTxn>>

\* A wrapper that forgets line 16 and goes from func to the finally clause.
TxnFuncReturn_NoCommit(v) ==
    /\ tpc = "func"
    /\ tret' = v
    /\ tfunc' = [tfunc EXCEPT !.outcome = "returned", !.value = v]
    /\ tpc' = "finally"
    /\ UNCHANGED <<db, tconn, texc, tout, tlog, tdb0, tcalls, nonTxn>>

\* line 14: func returns; result is bound and control reaches the commit.
TxnFuncReturn(v) ==
    /\ tpc = "func"
    /\ tret' = v
    /\ tfunc' = [tfunc EXCEPT !.outcome = "returned", !.value = v]
    /\ tpc' = "commit"
    /\ UNCHANGED <<db, tconn, texc, tout, tlog, tdb0, tcalls, nonTxn>>

\* line 14: func raises; the except clause (line 17) catches any Exception.
TxnFuncRaise(cls) ==
    /\ tpc = "func"
    /\ texc' = Exc(cls, "func", 0)
    /\ tfunc' = [tfunc EXCEPT !.outcome = "raised", !.exc = Exc(cls, "func", 0)]
    /\ tpc' = "except"
    /\ UNCHANGED <<db, tconn, tret, tout, tlog, tdb0, tcalls, nonTxn>>

\* A commit whose failure goes past the except clause to the finally.
TxnCommit_Uncaught ==
    /\ tpc = "commit"
    /\ \/ /\ db' = Committed(tconn)
          /\ tlog' = Append(tlog, "commit")
          /\ tconn' = [tconn EXCEPT !.intxn = FALSE]
          /\ texc' = NoExc
       \/ /\ db' = db
          /\ tlog' = Append(tlog, "commit!")
          /\ tconn' = tconn
          /\ texc' = Exc("OperationalError", "commit", 0)
    /\ tpc' = "finally"
    /\ UNCHANGED <<tret, tout, tdb0, tfunc, tcalls, nonTxn>>

\* line 16: conn.commit().  It publishes the writes, or fails and leaves the
\* transaction open; the failure is caught by the except clause.
TxnCommit ==
    /\ tpc = "commit"
    /\ \/ /\ db' = Committed(tconn)
          /\ tlog' = Append(tlog, "commit")
          /\ tconn' = [tconn EXCEPT !.intxn = FALSE]
          /\ texc' = NoExc
          /\ tpc' = "finally"
       \/ /\ db' = db
          /\ tlog' = Append(tlog, "commit!")
          /\ tconn' = tconn
          /\ texc' = Exc("OperationalError", "commit", 0)
          /\ tpc' = "except"
    /\ UNCHANGED <<tret, tout, tdb0, tfunc, tcalls, nonTxn>>

\* lines 17-21: the exception leaving the except clause: the bare raise
\* re-raises the caught exception when rollback() succeeded, and the
\* rollback's own error replaces it when rollback() failed.
ExceptRaises(caught, rollbackFailed) ==
    IF rollbackFailed THEN Exc("OperationalError", "rollback", 0) ELSE caught

\* An except clause that commits where line 19 rolls back.
TxnExcept_Commits ==
    /\ tpc = "except"
    /\ db' = Committed(tconn)
    /\ tlog' = Append(tlog, "commit")
    /\ tconn' = [tconn EXCEPT !.intxn = FALSE]
    /\ texc' = texc
    /\ tpc' = "finally"
    /\ UNCHANGED <<tret, tout, tdb0, tfunc, tcalls, nonTxn>>

\* A wrapper whose close() is not in a finally clause: an error leaves the
\* call after the rollback, past the close.
TxnExcept_NoFinally ==
    /\ tpc = "except"
    /\ \E failed \in BOOLEAN :
          /\ tlog' = Append(tlog, IF failed THEN "rollback!" ELSE "rollback")
          /\ tconn' = IF failed THEN tconn ELSE Rollback(tconn, db)
          /\ texc' = ExceptRaises(texc, failed)
          /\ tout' = Raised(ExceptRaises(texc, failed))
    /\ tpc' = "done"
    /\ UNCHANGED <<db, tret, tdb0, tfunc, tcalls, nonTxn>>

\* lines 17-21: except Exception as e: conn.rollback(); print; raise.
TxnExcept ==
    /\ tpc = "except"
    /\ \E failed \in BOOLEAN :
          /\ tlog' = Append(tlog, IF failed THEN "rollback!" ELSE "rollback")
          /\ tconn' = IF failed THEN tconn ELSE Rollback(tconn, db)
          /\ texc' = ExceptRaises(texc, failed)
    /\ tpc' = "finally"
    /\ UNCHANGED <<db, tret, tout, tdb0, tfunc, tcalls, nonTxn>>

\* lines 22-25: finally: conn.close(); then the pending exception
\* propagates, or line 25 returns result.
TxnFinally ==
    /\ tpc = "finally"
    /\ tconn' = Close(tconn, db)
    /\ tlog' = Append(tlog, "close")
    /\ tout' = IF texc # NoExc THEN Raised(texc) ELSE Returned(tret)
    /\ tpc' = "done"
    /\ UNCHANGED <<db, texc, tret, tdb0, tfunc, tcalls, nonTxn>>

TxnNext ==
    \/ TxnCall
    \/ TxnBegin
    \/ \E u \in Users, e \in Emails : TxnFuncWrite(u, e)
    \/ \E v \in Values : TxnFuncReturn(v)
    \/ \E cls \in FuncErrors : TxnFuncRaise(cls)
    \/ TxnCommit
    \/ TxnExcept
    \/ TxnFinally

\* ------------------------------------------------- retry_db_operation
\* The wrapped operation of a retry call is a script: it raises the store's
\* OperationalError on its first k invocations, and on invocation k+1 it
\* either returns a value or raises an error of another class.
OtherErrors == {"ValueError", "IntegrityError"}
Plans ==
    [k : 0..(MaxRetries + 1), then : {"return"}, value : Values, cls : {"none"}]
    \cup
    [k : 0..(MaxRetries + 1), then : {"raise"}, value : {NoVal}, cls : OtherErrors]
NoPlan == [k |-> 0, then |-> "none", value |-> NoVal, cls |-> "none"]

\* What invocation number i of the scripted operation does.
PlanOutcome(plan, i) ==
    IF i <= plan.k THEN Raised(Exc("OperationalError", "func", i))
    ELSE IF plan.then = "return" THEN Returned(plan.value)
    ELSE Raised(Exc(plan.cls, "func", i))

InitRetry ==
    /\ rpc = "idle"
    /\ retries = 0
    /\ delay = 0
    /\ attempt = 0
    /\ last_exception = NoExc
    /\ rlog = <<>>
    /\ rplan = NoPlan
    /\ rout = NoOutcome

nonRetry ==
    <<txnVars, cacheVars, scopeVars, genVars, pageVars, concVars, loadVars,
      accessVars, chatVars, execVars, stackVars>>

\* lines 7-11: the wrapper is called: last_exception = None, and the loop
\* over range(retries) starts.
RetryCall(n, d, plan) ==
    /\ rpc = "idle"
    /\ retries' = n
    /\ delay' = d
    /\ rplan' = plan
    /\ attempt' = 0
    /\ last_exception' = NoExc
    /\ rlog' = <<>>
    /\ rout' = NoOutcome
    /\ rpc' = "loop"
    /\ UNCHANGED nonRetry

\* An off-by-one loop: range(retries - 1).
InRange_OneLess(a, n) == a < n - 1

\* line 12: for attempt in range(retries): the loop has another iteration.
InRange(a, n) == a < n

\* A wrapper that catches every Exception.
Retryable_All(cls) == TRUE

\* line 15: except sqlite3.OperationalError: the errors the wrapper retries.
Retryable(cls) == cls = "OperationalError"

\* lines 16-18: what one caught failure appends to the call's events: the
\* invocation, then time.sleep(delay).
AfterCaught(log) == log \o <<"call", "sleep">>

\* lines 12-18: one iteration: func is invoked; its return value is returned
\* at once (line 14); an OperationalError is kept in last_exception and the
\* delay is slept (lines 15-18); any other error propagates.
RetryAttempt ==
    /\ rpc = "loop"
    /\ InRange(attempt, retries)
    /\ LET o == PlanOutcome(rplan, Count(rlog, {"call"}) + 1) IN
          IF o.kind = "raise" /\ Retryable(o.exc.cls)
          THEN /\ last_exception' = o.exc
               /\ rlog' = AfterCaught(rlog)
               /\ attempt' = attempt + 1
               /\ UNCHANGED <<rpc, rout>>
          ELSE /\ rout' = o
               /\ rlog' = Append(rlog, "call")
               /\ rpc' = "done"
               /\ UNCHANGED <<last_exception, attempt>>
    /\ UNCHANGED <<retries, delay, rplan, nonRetry>>

\* line 20: raise last_exception.  It re-raises the last caught error; with
\* no caught error last_exception is None, and raising None is a TypeError.
RaiseLast(e) == IF e = NoExc THEN Exc("TypeError", "raise", 0) ELSE e

\* lines 19-20: the loop is over: print the failure, raise last_exception.
RetryExhausted ==
    /\ rpc = "loop"
    /\ ~InRange(attempt, retries)
    /\ rout' = Raised(RaiseLast(last_exception))
    /\ rpc' = "done"
    /\ UNCHANGED <<retries, delay, attempt, last_exception, rlog, rplan, nonRetry>>

RetryNext ==
    \/ \E n \in (-1)..MaxRetries, d \in 0..MaxDelay, plan \in Plans :
          RetryCall(n, d, plan)
    \/ RetryAttempt
    \/ RetryExhausted

\* ---------------------------------------------------------- cache_query
\* Python values that reach the wrapper's key expression, tagged by type:
\* a query text <<"str", q>> (q = 0 is the empty text ""), a connection
\* object <<"conn", id>>, and None.
None == <<"none", 0>>
Str(q) == <<"str", q>>
ConnObj(id) == <<"conn", id>>
Queries == 0..NumQueries
Callers == {1, 2}

\* Python truthiness: None and the empty string are falsy; a non-empty
\* string and a connection object are truthy.
Truthy(v) == v # None /\ v # Str(0)

\* The positional and keyword arguments the cache wrapper receives.  Under
\* with_db_connection (1-with_db_connection.py line 15) the connection is
\* prepended to the positional arguments.
CallArgs(call) ==
    (IF call.stacked THEN <<ConnObj(call.conn)>> ELSE <<>>)
    \o (IF call.how = "pos" THEN <<Str(call.query)>> ELSE <<>>)
CallKwQuery(call) == IF call.how = "kw" THEN Str(call.query) ELSE None

\* line 12: query = kwargs.get("query") or (args[0] if args else None)
CacheKey(args, kwquery) ==
    IF Truthy(kwquery) THEN kwquery
    ELSE IF Len(args) > 0 THEN args[1] ELSE None

\* line 15: if query in cache
CacheHit(c, key) == key \in DOMAIN c

\* line 21: cache[query] = result
CachePut(c, key, result) ==
    [k \in DOMAIN c \cup {key} |-> IF k = key THEN result ELSE c[k]]

\* A result of the underlying operation: the rows of its query as fetched
\* by invocation number inv (the table may differ between invocations).
Res(q, inv) == [query |-> q, inv |-> inv]
NoRes == Res(-1, 0)
NoCall == [stacked |-> FALSE, how |-> "none", query |-> 0, conn |-> 0, n |-> 0]
CNone == [kind |-> "none", res |-> NoRes, exc |-> NoExc]
CReturned(r) == [kind |-> "return", res |-> r, exc |-> NoExc]
CRaised(e) == [kind |-> "raise", res |-> NoRes, exc |-> e]

InitCache ==
    /\ cache = <<>>
    /\ cpc = [t \in Callers |-> "idle"]
    /\ ccall = [t \in Callers |-> NoCall]
    /\ ckey = [t \in Callers |-> None]
    /\ cresult = [t \in Callers |-> NoRes]
    /\ cout = [t \in Callers |-> CNone]
    /\ cinv = 0
    /\ chist = {}
    /\ cret = {}
    /\ copen = {}
    /\ cnext = 1

nonCache ==
    <<txnVars, retryVars, scopeVars, genVars, pageVars, concVars, loadVars,
      accessVars, chatVars, execVars, stackVars>>

\* lines 11-12: a caller calls the wrapped operation; the wrapper derives
\* the key.  The operation is decorated once: either every call reaches the
\* cache wrapper directly, or every call comes through with_db_connection
\* (lines 28-30), which opens a connection first (line 12 there).  limit
\* bounds the caller's calls.
CacheCall(t, limit, stacked, how, q) ==
    /\ cpc[t] \in {"idle", "done"}
    /\ ccall[t].n < limit
    /\ \A u \in Callers : ccall[u].n > 0 => ccall[u].stacked = stacked
    /\ LET call == [stacked |-> stacked, how |-> how, query |-> q,
                    conn |-> IF stacked THEN cnext ELSE 0, n |-> ccall[t].n + 1]
       IN /\ ccall' = [ccall EXCEPT ![t] = call]
          /\ ckey' = [ckey EXCEPT ![t] = CacheKey(CallArgs(call), CallKwQuery(call))]
    /\ copen' = IF stacked THEN copen \cup {cnext} ELSE copen
    /\ cnext' = IF stacked THEN cnext + 1 ELSE cnext
    /\ cresult' = [cresult EXCEPT ![t] = NoRes]
    /\ cout' = [cout EXCEPT ![t] = CNone]
    /\ cpc' = [cpc EXCEPT ![t] = "lookup"]
    /\ UNCHANGED <<cache, cinv, chist, cret, nonCache>>

\* lines 15-17: a hit returns cache[query]; a miss goes on to line 20.
CacheLookup(t) ==
    /\ cpc[t] = "lookup"
    /\ IF CacheHit(cache, ckey[t])
       THEN /\ cout' = [cout EXCEPT ![t] = CReturned(cache[ckey[t]])]
            /\ cpc' = [cpc EXCEPT ![t] = "exit"]
       ELSE /\ cout' = cout
            /\ cpc' = [cpc EXCEPT ![t] = "compute"]
    /\ UNCHANGED <<cache, ccall, ckey, cresult, cinv, chist, cret, copen, cnext,
                   nonCache>>

\* line 20: result = func(*args, **kwargs): the underlying operation runs
\* the requested query and returns its rows, or raises.
CacheCompute(t) ==
    /\ cpc[t] = "compute"
    /\ cinv' = cinv + 1
    /\ \/ /\ cresult' = [cresult EXCEPT ![t] = Res(ccall[t].query, cinv + 1)]
          /\ chist' = chist \cup {[key |-> ckey[t], query |-> ccall[t].query,
                                   inv |-> cinv + 1, ok |-> TRUE]}
          /\ cout' = cout
          /\ cpc' = [cpc EXCEPT ![t] = "store"]
       \/ /\ cresult' = cresult
          /\ chist' = chist \cup {[key |-> ckey[t], query |-> ccall[t].query,
                                   inv |-> cinv + 1, ok |-> FALSE]}
          /\ cout' = [cout EXCEPT ![t] = CRaised(Exc("OperationalError", "func", cinv + 1))]
          /\ cpc' = [cpc EXCEPT ![t] = "exit"]
    /\ UNCHANGED <<cache, ccall, ckey, cret, copen, cnext, nonCache>>

\* lines 21-23: store the result under the key and return it.
CacheStore(t) ==
    /\ cpc[t] = "store"
    /\ cache' = CachePut(cache, ckey[t], cresult[t])
    /\ cout' = [cout EXCEPT ![t] = CReturned(cresult[t])]
    /\ cpc' = [cpc EXCEPT ![t] = "exit"]
    /\ UNCHANGED <<ccall, ckey, cresult, cinv, chist, cret, copen, cnext, nonCache>>

\* The call is over: with_db_connection's finally closes the connection it
\* opened (1-with_db_connection.py lines 16-19), and the caller has the
\* result or the error.
CacheExit(t) ==
    /\ cpc[t] = "exit"
    /\ copen' = copen \ {ccall[t].conn}
    /\ cret' = cret \cup {[key |-> ckey[t], query |-> ccall[t].query, caller |-> t,
                           n |-> ccall[t].n, out |-> cout[t]]}
    /\ cpc' = [cpc EXCEPT ![t] = "done"]
    /\ UNCHANGED <<cache, ccall, ckey, cresult, cout, cinv, chist, cnext, nonCache>>

CacheStep(t) ==
    \/ CacheLookup(t)
    \/ CacheCompute(t)
    \/ CacheStore(t)
    \/ CacheExit(t)

\* One caller, its calls one after the other.
CacheSeqNext ==
    \/ \E stacked \in BOOLEAN, how \in {"kw", "pos"}, q \in Queries :
          CacheCall(1, MaxSeqCalls, stacked, how, q)
    \/ CacheStep(1)

\* Two callers, their steps interleaved.
CacheNext ==
    \/ \E t \in Callers, stacked \in BOOLEAN, how \in {"kw", "pos"}, q \in Queries :
          /\ ccall[1].n + ccall[2].n < MaxCacheCalls
          /\ CacheCall(t, MaxCacheCalls, stacked, how, q)
    \/ \E t \in Callers : CacheStep(t)


\* ------------------------------ with_db_connection, DatabaseConnection
\* A connection scope is entered as the with_db_connection wrapper
\* ("decorator") or as a with statement over DatabaseConnection
\* ("context").  Connections are numbered by the call that opened them.
InitScope ==
    /\ spc = "idle"
    /\ skind = "none"
    /\ sconn = 0
    /\ sself = 0
    /\ sopen = {}
    /\ spend = NoOutcome
    /\ sout = NoOutcome
    /\ slog = <<>>
    /\ scalls = 0

nonScope ==
    <<txnVars, retryVars, cacheVars, genVars, pageVars, concVars, loadVars,
      accessVars, chatVars, execVars, stackVars>>

\* with_db_connection line 12 / DatabaseConnection lines 6-13: __init__
\* sets connection to None; the connection is opened before the enclosed
\* operation starts.  A failure to connect propagates, nothing was opened.
ScopeEnter(kind) ==
    /\ spc \in {"idle", "done"}
    /\ scalls < MaxScopeCalls
    /\ scalls' = scalls + 1
    /\ skind' = kind
    /\ spend' = NoOutcome
    /\ \/ /\ sconn' = scalls + 1
          /\ sself' = IF kind = "context" THEN scalls + 1 ELSE 0
          /\ sopen' = sopen \cup {scalls + 1}
          /\ slog' = <<"connect">>
          /\ sout' = NoOutcome
          /\ spc' = "body"
       \/ /\ sconn' = 0
          /\ sself' = 0
          /\ sopen' = sopen
          /\ slog' = <<>>
          /\ sout' = Raised(Exc("OperationalError", "connect", 0))
          /\ spc' = "done"
    /\ UNCHANGED nonScope

\* The enclosed operation executes a statement on the connection.
ScopeBodyStmt ==
    /\ spc = "body"
    /\ Count(slog, {"stmt"}) < MaxWrites
    /\ slog' = Append(slog, "stmt")
    /\ UNCHANGED <<spc, skind, sconn, sself, sopen, spend, sout, scalls, nonScope>>

\* The enclosed operation returns (with_db_connection line 15 binds result).
ScopeBodyReturn(v) ==
    /\ spc = "body"
    /\ spend' = Returned(v)
    /\ spc' = "exit"
    /\ UNCHANGED <<skind, sconn, sself, sopen, sout, slog, scalls, nonScope>>

\* A scope whose close() follows the enclosed operation without a finally
\* clause: an error leaves the scope past the close.
ScopeBodyRaise_NoFinally(cls) ==
    /\ spc = "body"
    /\ spend' = Raised(Exc(cls, "func", 0))
    /\ sout' = Raised(Exc(cls, "func", 0))
    /\ spc' = "done"
    /\ UNCHANGED <<skind, sconn, sself, sopen, slog, scalls, nonScope>>

\* The enclosed operation raises.
ScopeBodyRaise(cls) ==
    /\ spc = "body"
    /\ spend' = Raised(Exc(cls, "func", 0))
    /\ spc' = "exit"
    /\ UNCHANGED <<skind, sconn, sself, sopen, sout, slog, scalls, nonScope>>

\* with_db_connection lines 16-18: finally: conn.close().
\* DatabaseConnection lines 15-18: __exit__ closes self.connection if it is
\* set.  The connections open after the scope's exit code has run.
ScopeRelease(kind, open, conn, selfconn) ==
    IF kind = "decorator" THEN open \ {conn}
    ELSE IF selfconn # 0 THEN open \ {selfconn} ELSE open

\* The exit code runs on every way out of the enclosed operation; then the
\* result is returned (with_db_connection line 19) or the error propagates
\* (__exit__ returns None, which suppresses nothing).
ScopeExit ==
    /\ spc = "exit"
    /\ sopen' = ScopeRelease(skind, sopen, sconn, sself)
    /\ slog' = IF sopen' # sopen THEN Append(slog, "close") ELSE slog
    /\ sout' = spend
    /\ spc' = "done"
    /\ UNCHANGED <<skind, sconn, sself, spend, scalls, nonScope>>

ScopeNext ==
    \/ \E kind \in {"decorator", "context"} : ScopeEnter(kind)
    \/ ScopeBodyStmt
    \/ \E v \in Values : ScopeBodyReturn(v)
    \/ \E cls \in FuncErrors : ScopeBodyRaise(cls)
    \/ ScopeExit

\* --------------------------------- python-generators-0x00: the user_data table
\* The ages stored in the table; 25 is the threshold of batch_processing.
Ages == {20, 25, 30, 40}
\* A row of SELECT * FROM user_data, as the dictionary cursor returns it.
Row(i, a) == [id |-> i, age |-> a]
\* A table is given by the ages of its rows, in cursor order.
Tables == UNION {[1..n -> Ages] : n \in 0..MaxRows}
Rows(t) == [i \in 1..Len(t) |-> Row(i, t[i])]
Min(a, b) == IF a < b THEN a ELSE b

\* The batch_size and page_size arguments: positive, zero and negative.
Sizes == (-1)..MaxSize

\* A MySQL connection as the scripts see it: "none" before connect, "open",
\* "closed" once connection.close() was called.  A connection that was never
\* closed when the frame holding it is discarded is either left open or
\* reclaimed by the runtime's finalizer: the scripts do not decide which.
Dropped(c) == IF c = "open" THEN {"open", "reclaimed"} ELSE {c}

\* ------------------- stream_users, stream_users_in_batches, stream_user_ages
\* The three generator functions have one shape: connect, open a cursor,
\* execute one query, yield from the cursor in a loop, close after the loop.
StreamFns == {"stream_users", "stream_users_in_batches", "stream_user_ages"}
\* Who pulls from the generator: a caller's own loop ("direct"), or one of
\* the two functions of the package that are written over a generator.
Pipelines == {
    [fn |-> "stream_users", cons |-> "direct"],
    [fn |-> "stream_users_in_batches", cons |-> "direct"],
    [fn |-> "stream_users_in_batches", cons |-> "batch_processing"],
    [fn |-> "stream_user_ages", cons |-> "direct"],
    [fn |-> "stream_user_ages", cons |-> "compute_average_age"]}
\* for row in cursor reads one row per iteration; islice reads batch_size.
SizesOf(fn) == IF fn = "stream_users_in_batches" THEN Sizes ELSE {1}

\* An islice that reads one row more than it was asked for.
Islice_OneMore(data, pos, n) == SubSeq(data, pos + 1, Min(pos + n + 1, Len(data)))
\* list(islice(cursor, n)) for n >= 0: the next n rows of the cursor, fewer
\* at its end, none when it is exhausted.
Islice(data, pos, n) == SubSeq(data, pos + 1, Min(pos + n, Len(data)))

\* What the yield statement hands over for the rows just read.
Item(fn, chunk) ==
    CASE fn = "stream_users_in_batches" -> chunk
      [] fn = "stream_users" -> chunk[1]
      [] fn = "stream_user_ages" -> chunk[1].age

\* The error of a failed connect: mysql.connector.connect raises; seed's
\* connect_to_prodev catches that, returns None, and the next line of
\* stream_user_ages fails on None.cursor.
ConnectError(fn) ==
    IF fn = "stream_user_ages"
    THEN Exc("AttributeError", "cursor", 0)
    ELSE Exc("Error", "connect", 0)

InitGen ==
    /\ gpc = "none"
    /\ gfn = "none"
    /\ gcons = "none"
    /\ gsize = 0
    /\ gdata = <<>>
    /\ gconn = "none"
    /\ gpos = 0
    /\ glog = <<>>
    /\ gout = <<>>
    /\ gexc = NoExc
    /\ gpulls = 0
    /\ bpc = "none"
    /\ bidx = 0
    /\ bexam = <<>>
    /\ bout = <<>>
    /\ bpulls = 0
    /\ apc = "none"
    /\ total = 0
    /\ count = 0
    /\ aout = NoOutcome

nonGen ==
    <<txnVars, retryVars, cacheVars, scopeVars, pageVars, concVars, loadVars,
      accessVars, chatVars, execVars, stackVars>>
bpVars == <<bpc, bidx, bexam, bout, bpulls>>
avgVars == <<apc, total, count, aout>>

\* Calling a generator function runs none of its body.  batch_processing is
\* itself a generator; compute_average_age sets total and count (lines 27
\* and 28) and enters its loop.
StreamCall(fn, cons, size, t) ==
    /\ gpc = "none"
    /\ ppc = "none"
    /\ [fn |-> fn, cons |-> cons] \in Pipelines
    /\ size \in SizesOf(fn)
    /\ gpc' = "created"
    /\ gfn' = fn
    /\ gcons' = cons
    /\ gsize' = size
    /\ gdata' = Rows(t)
    /\ bpc' = IF cons = "batch_processing" THEN "created" ELSE "none"
    /\ apc' = IF cons = "compute_average_age" THEN "loop" ELSE "none"
    /\ total' = 0
    /\ count' = 0
    /\ UNCHANGED <<gconn, gpos, glog, gout, gexc, gpulls, bidx, bexam, bout, bpulls, aout, nonGen>>

\* A batch_processing that asks for the next batch without finishing the
\* current one.
BatchExhausted_Early == TRUE
\* The batch the inner loop of batch_processing iterates over (line 47).
CurrentBatch == IF gout = <<>> THEN <<>> ELSE gout[Len(gout)]
\* for batch in ...: the next batch is asked for when the inner loop over
\* the current one has finished.
BatchExhausted == bidx = Len(CurrentBatch)

\* Whether the consumer is at the point where it calls next() on the
\* generator.
ConsumerPulls ==
    CASE gcons = "direct" -> TRUE
      [] gcons = "batch_processing" ->
            bpc = "running" /\ (gpc = "created" \/ BatchExhausted)
      [] gcons = "compute_average_age" -> apc = "loop" /\ count = Len(gout)
      [] OTHER -> FALSE

\* A generator that connects and queries again on every pull.
ResumeAt_Reconnect(pc) == "connect"
\* Where the body continues on next(): at its first line, or after the
\* yield, which is the end of the loop body.
ResumeAt(pc) == IF pc = "created" THEN "connect" ELSE "fetch"

\* next(generator): the body runs from its start, or resumes after the yield
\* and goes round the loop to the next read of the cursor.
GenPull ==
    /\ gpc \in {"created", "yielded"}
    /\ ConsumerPulls
    /\ gpulls' = gpulls + 1
    /\ gpc' = ResumeAt(gpc)
    /\ bidx' = 0
    /\ UNCHANGED <<gfn, gcons, gsize, gdata, gconn, gpos, glog, gout, gexc,
                   bpc, bexam, bout, bpulls, avgVars, nonGen>>

\* connection = mysql.connector.connect(...) / seed.connect_to_prodev()
GenConnect ==
    /\ gpc = "connect"
    /\ \/ /\ gconn' = "open"
          /\ glog' = Append(glog, "connect")
          /\ gpc' = "execute"
          /\ gexc' = gexc
       \/ /\ gconn' = "none"
          /\ glog' = Append(glog, "connect!")
          /\ gpc' = "failed"
          /\ gexc' = ConnectError(gfn)
    /\ UNCHANGED <<gfn, gcons, gsize, gdata, gpos, gout, gpulls, bpVars, avgVars, nonGen>>

\* cursor = connection.cursor(dictionary=True); cursor.execute("SELECT ...")
\* A failure leaves the generator with nothing that closes the connection.
GenExecute ==
    /\ gpc = "execute"
    /\ \/ /\ glog' = Append(glog, "execute")
          /\ gpos' = 0
          /\ gpc' = "fetch"
          /\ UNCHANGED <<gconn, gexc>>
       \/ /\ glog' = Append(glog, "execute!")
          /\ gpc' = "failed"
          /\ gexc' = Exc("Error", "execute", 0)
          /\ gconn' \in Dropped(gconn)
          /\ gpos' = gpos
    /\ UNCHANGED <<gfn, gcons, gsize, gdata, gout, gpulls, bpVars, avgVars, nonGen>>

\* One round of the loop: read the cursor, then yield what was read or leave
\* the loop when nothing was.  islice rejects a negative count before it
\* touches the cursor, and with a count of zero it never reads it.
GenFetch ==
    /\ gpc = "fetch"
    /\ \/ /\ gsize < 0
          /\ gpc' = "failed"
          /\ gexc' = Exc("ValueError", "islice", 0)
          /\ gconn' \in Dropped(gconn)
          /\ UNCHANGED <<gpos, glog, gout>>
       \/ /\ gsize >= 0
          /\ LET chunk == Islice(gdata, gpos, gsize) IN
             /\ gpos' = gpos + Len(chunk)
             /\ glog' = IF gsize > 0 THEN Append(glog, "fetch") ELSE glog
             /\ gout' = IF chunk = <<>> THEN gout ELSE Append(gout, Item(gfn, chunk))
             /\ gpc' = IF chunk = <<>> THEN "cleanup" ELSE "yielded"
          /\ UNCHANGED <<gconn, gexc>>
       \/ /\ gsize > 0
          /\ glog' = Append(glog, "fetch!")
          /\ gpc' = "failed"
          /\ gexc' = Exc("Error", "fetch", 0)
          /\ gconn' \in Dropped(gconn)
          /\ UNCHANGED <<gpos, gout>>
    /\ UNCHANGED <<gfn, gcons, gsize, gdata, gpulls, bpVars, avgVars, nonGen>>

\* The result of the query was not read to its end: the loop was left
\* without a read of the cursor that came back short.  A read of
\* batch_size rows that returns none has reached the end; with batch_size 0
\* the cursor is never read, whether the table has rows or not.
UnreadResult == gsize = 0

\* After the loop: cursor.close(); connection.close(); the generator
\* returns.  Closing a cursor whose result was not read to its end is
\* refused by some versions of the connector (InternalError: Unread result
\* found), and then connection.close() is not reached.
GenCleanup ==
    /\ gpc = "cleanup"
    /\ \/ /\ glog' = Append(glog, "close")
          /\ gconn' = "closed"
          /\ gpc' = "done"
          /\ gexc' = gexc
       \/ /\ UnreadResult
          /\ glog' = Append(glog, "close!")
          /\ gconn' \in Dropped(gconn)
          /\ gpc' = "failed"
          /\ gexc' = Exc("InternalError", "close", 0)
    /\ UNCHANGED <<gfn, gcons, gsize, gdata, gpos, gout, gpulls, bpVars, avgVars, nonGen>>

\* The consumer stops pulling: generator.close(), or the generator object
\* is dropped.  GeneratorExit is raised at the yield the generator is
\* suspended on and leaves the function: the lines after the loop, which
\* close the cursor and the connection, are not executed.
GenClose ==
    /\ gcons = "direct"
    /\ gpc \in {"created", "yielded"}
    /\ gpc' = "closed"
    /\ gconn' \in Dropped(gconn)
    /\ UNCHANGED <<gfn, gcons, gsize, gdata, gpos, glog, gout, gexc, gpulls, bpVars, avgVars, nonGen>>

\* --------------------------------------------------------- batch_processing
\* A filter that lets age 25 through.
Matches_AtLeast(user) == user.age >= 25
\* line 48: the predicate of the filter.
Matches(user) == user.age > 25

\* next() on batch_processing: it runs until its next yield or its end.
BpPull ==
    /\ bpc \in {"created", "yielded"}
    /\ bpc' = "running"
    /\ bpulls' = bpulls + 1
    /\ UNCHANGED <<gpc, gfn, gcons, gsize, gdata, gconn, gpos, glog, gout, gexc, gpulls,
                   bidx, bexam, bout, avgVars, nonGen>>

\* lines 47 to 49: the next user of the current batch is examined, and
\* yielded when the predicate holds.
BpExamine ==
    /\ bpc = "running"
    /\ gpc = "yielded"
    /\ bidx < Len(CurrentBatch)
    /\ LET user == CurrentBatch[bidx + 1] IN
       /\ bidx' = bidx + 1
       /\ bexam' = Append(bexam, user)
       /\ bout' = IF Matches(user) THEN Append(bout, user) ELSE bout
       /\ bpc' = IF Matches(user) THEN "yielded" ELSE "running"
    /\ UNCHANGED <<gpc, gfn, gcons, gsize, gdata, gconn, gpos, glog, gout, gexc, gpulls,
                   bpulls, avgVars, nonGen>>

\* line 50: the batch sequence is exhausted and batch_processing returns;
\* an error of the batch sequence passes through the for statement.
BpEnd ==
    /\ bpc = "running"
    /\ gpc \in {"done", "failed"}
    /\ bpc' = IF gpc = "done" THEN "done" ELSE "failed"
    /\ UNCHANGED <<gpc, gfn, gcons, gsize, gdata, gconn, gpos, glog, gout, gexc, gpulls,
                   bidx, bexam, bout, bpulls, avgVars, nonGen>>

\* The consumer closes or drops batch_processing while it is suspended:
\* GeneratorExit leaves its loops, the batch generator it iterated over is
\* discarded with it and is closed at its own yield in the same way.
BpClose ==
    /\ bpc \in {"created", "yielded"}
    /\ bpc' = "closed"
    /\ gpc' = "closed"
    /\ gconn' \in Dropped(gconn)
    /\ UNCHANGED <<gfn, gcons, gsize, gdata, gpos, glog, gout, gexc, gpulls,
                   bidx, bexam, bout, bpulls, avgVars, nonGen>>

\* ------------------------------------------------------ compute_average_age
RECURSIVE Gcd(_, _)
Gcd(a, b) == IF b = 0 THEN a ELSE Gcd(b, a % b)
\* The value of a / b as a fraction in lowest terms (b > 0).
Ratio(a, b) == [num |-> a \div Gcd(a, b), den |-> b \div Gcd(a, b)]
Number(n) == [num |-> n, den |-> 1]
\* total / count, Python's true division.
TrueDiv(a, b) ==
    IF b = 0
    THEN Raised(Exc("ZeroDivisionError", "compute_average_age", 0))
    ELSE Returned(Ratio(a, b))

\* lines 34 to 36 without the test of line 34.
AverageOf_Unguarded(t, c) == TrueDiv(t, c)
\* lines 34 to 36: if count == 0: return 0; return total / count
AverageOf(t, c) == IF c = 0 THEN Returned(Number(0)) ELSE TrueDiv(t, c)

\* line 31 without the addition: total keeps the last age only.
Accumulate_Last(t, age) == age
\* line 31: total += age
Accumulate(t, age) == t + age

\* lines 31 and 32: the body of the loop, for the age just received.
AvgAdd ==
    /\ apc = "loop"
    /\ gpc = "yielded"
    /\ count < Len(gout)
    /\ total' = Accumulate(total, gout[count + 1])
    /\ count' = count + 1
    /\ UNCHANGED <<gpc, gfn, gcons, gsize, gdata, gconn, gpos, glog, gout, gexc, gpulls,
                   bpVars, apc, aout, nonGen>>

\* The loop ends: with the generator's end (lines 34 to 36), or with the
\* error it raised, which compute_average_age does not catch.
AvgEnd ==
    /\ apc = "loop"
    /\ gpc \in {"done", "failed"}
    /\ apc' = "done"
    /\ aout' = IF gpc = "done" THEN AverageOf(total, count) ELSE Raised(gexc)
    /\ UNCHANGED <<gpc, gfn, gcons, gsize, gdata, gconn, gpos, glog, gout, gexc, gpulls,
                   bpVars, total, count, nonGen>>

StreamNext ==
    \/ /\ gpc = "none"
       /\ \E p \in Pipelines, t \in Tables :
            \E size \in SizesOf(p.fn) : StreamCall(p.fn, p.cons, size, t)
    \/ GenPull
    \/ GenConnect
    \/ GenExecute
    \/ GenFetch
    \/ GenCleanup
    \/ GenClose
    \/ BpPull
    \/ BpExamine
    \/ BpEnd
    \/ BpClose
    \/ AvgAdd
    \/ AvgEnd

\* ------------------------------------------ paginate_users, lazy_pagination
InitPage ==
    /\ ppc = "none"
    /\ psize = 0
    /\ offset = 0
    /\ pdata = <<>>
    /\ pconns = <<>>
    /\ plog = <<>>
    /\ page = <<>>
    /\ pout = <<>>
    /\ pexc = NoExc
    /\ ppulls = 0

nonPage ==
    <<txnVars, retryVars, cacheVars, scopeVars, genVars, concVars, loadVars,
      accessVars, chatVars, execVars, stackVars>>

\* SELECT * FROM user_data LIMIT n OFFSET off, for n >= 0.
LimitOffset(data, n, off) == SubSeq(data, off + 1, Min(off + n, Len(data)))
\* The connection of the page fetch in progress is the last one opened.
SetLast(conns, c) == [conns EXCEPT ![Len(conns)] = c]
DropLast(conns) == {SetLast(conns, c) : c \in Dropped(conns[Len(conns)])}

\* lazy_pagination(page_size): a generator, none of its body has run.
PageCall(size, t) ==
    /\ ppc = "none"
    /\ gpc = "none"
    /\ ppc' = "created"
    /\ psize' = size
    /\ pdata' = Rows(t)
    /\ UNCHANGED <<offset, pconns, plog, page, pout, pexc, ppulls, nonPage>>

\* A paginator that advances one row too far.
NextOffset_Skips(off, size) == off + size + 1
\* line 32: offset += page_size
NextOffset(off, size) == off + size

\* next(): the first pull runs line 26, a later one resumes after the yield
\* with line 32; both then call paginate_users (line 28).
PagePull ==
    /\ ppc \in {"created", "yielded"}
    /\ ppulls' = ppulls + 1
    /\ offset' = IF ppc = "created" THEN 0 ELSE NextOffset(offset, psize)
    /\ ppc' = "connect"
    /\ UNCHANGED <<psize, pdata, pconns, plog, page, pout, pexc, nonPage>>

\* line 12: seed.connect_to_prodev() returns a connection, or prints the
\* connector's error and returns None, on which line 13 fails.
PageConnect ==
    /\ ppc = "connect"
    /\ \/ /\ pconns' = Append(pconns, "open")
          /\ plog' = Append(plog, "connect")
          /\ ppc' = "execute"
          /\ pexc' = pexc
       \/ /\ pconns' = pconns
          /\ plog' = Append(plog, "connect!")
          /\ ppc' = "failed"
          /\ pexc' = Exc("AttributeError", "cursor", 0)
    /\ UNCHANGED <<psize, offset, pdata, page, pout, ppulls, nonPage>>

\* The errors lines 13 and 14 can end with: connection.cursor and the
\* sending of the statement fail with the driver's Error whatever page_size
\* is; a statement with a negative LIMIT that reaches the store is rejected
\* with ProgrammingError.
ExecuteErrors(size) == IF size < 0 THEN {"Error", "ProgrammingError"} ELSE {"Error"}

\* lines 13 and 14: the store rejects a negative LIMIT; any execute can
\* fail.  The error leaves paginate_users before lines 16 and 17.
PageExecute ==
    /\ ppc = "execute"
    /\ \/ /\ psize >= 0
          /\ plog' = Append(plog, "execute")
          /\ ppc' = "fetchall"
          /\ UNCHANGED <<pconns, pexc>>
       \/ /\ plog' = Append(plog, "execute!")
          /\ ppc' = "failed"
          /\ \E cls \in ExecuteErrors(psize) : pexc' = Exc(cls, "execute", 0)
          /\ pconns' \in DropLast(pconns)
    /\ UNCHANGED <<psize, offset, pdata, page, pout, ppulls, nonPage>>

\* line 15: rows = cursor.fetchall()
PageFetchall ==
    /\ ppc = "fetchall"
    /\ \/ /\ page' = LimitOffset(pdata, psize, offset)
          /\ plog' = Append(plog, "fetch")
          /\ ppc' = "close"
          /\ UNCHANGED <<pconns, pexc>>
       \/ /\ plog' = Append(plog, "fetch!")
          /\ ppc' = "failed"
          /\ pexc' = Exc("Error", "fetch", 0)
          /\ pconns' \in DropLast(pconns)
          /\ page' = page
    /\ UNCHANGED <<psize, offset, pdata, pout, ppulls, nonPage>>

\* A paginator that stops at the first page shorter than page_size.
EndOfPages_Short(p) == Len(p) < psize
\* line 29: if not page
EndOfPages(p) == p = <<>>

\* A paginate_users that returns the rows without lines 16 and 17.
PageReturn_KeepsOpen ==
    /\ ppc = "close"
    /\ pout' = IF EndOfPages(page) THEN pout ELSE Append(pout, page)
    /\ ppc' = IF EndOfPages(page) THEN "done" ELSE "yielded"
    /\ UNCHANGED <<psize, offset, pdata, pconns, plog, page, pexc, ppulls, nonPage>>

\* lines 16 to 18: cursor.close(); connection.close(); return rows; then
\* lines 29 to 31: an empty page ends the generator, any other is yielded.
PageReturn ==
    /\ ppc = "close"
    /\ pconns' = SetLast(pconns, "closed")
    /\ plog' = Append(plog, "close")
    /\ pout' = IF EndOfPages(page) THEN pout ELSE Append(pout, page)
    /\ ppc' = IF EndOfPages(page) THEN "done" ELSE "yielded"
    /\ UNCHANGED <<psize, offset, pdata, page, pexc, ppulls, nonPage>>

\* The consumer closes or drops the paginator between two pages.
PageClose ==
    /\ ppc \in {"created", "yielded"}
    /\ ppc' = "closed"
    /\ UNCHANGED <<psize, offset, pdata, pconns, plog, page, pout, pexc, ppulls, nonPage>>

PageNext ==
    \/ /\ ppc = "none"
       /\ \E size \in Sizes, t \in Tables : PageCall(size, t)
    \/ PagePull
    \/ PageConnect
    \/ PageExecute
    \/ PageFetchall
    \/ PageReturn
    \/ PageClose

\* Other clients of the store, while the paginator is suspended between two
\* pages (no connection of paginate_users is open then, lines 16-17).  The
\* rows of the table at the call have the ids 1, 2, ...; a row another
\* client inserts has an id below 1, and lands anywhere in the order the
\* store returns the rows in (the query has no ORDER BY).
Inserted(data) == {i \in 1..Len(data) : data[i].id < 1}
InsertAt(data, pos, r) == SubSeq(data, 1, pos - 1) \o <<r>> \o SubSeq(data, pos, Len(data))
DeleteAt(data, pos) == SubSeq(data, 1, pos - 1) \o SubSeq(data, pos + 1, Len(data))

TableInsert(pos, a) ==
    /\ ppc = "yielded"
    /\ Cardinality(Inserted(pdata)) < MaxInserts
    /\ pos \in 1..(Len(pdata) + 1)
    /\ pdata' = InsertAt(pdata, pos, Row(0 - Cardinality(Inserted(pdata)), a))
    /\ UNCHANGED <<ppc, psize, offset, pconns, plog, page, pout, pexc, ppulls, nonPage>>

\* Another client deletes a row that was in the table at the call.
TableDelete(pos) ==
    /\ ppc = "yielded"
    /\ pos \in 1..Len(pdata)
    /\ pdata[pos].id >= 1
    /\ pdata' = DeleteAt(pdata, pos)
    /\ UNCHANGED <<ppc, psize, offset, pconns, plog, page, pout, pexc, ppulls, nonPage>>

\* lazy_pagination over a table that other clients write to.  The rows
\* differ in their ids; their ages play no part here and are all 25.
SharedPageNext ==
    \/ /\ ppc = "none"
       /\ \E size \in Sizes, n \in 0..MaxRows : PageCall(size, [i \in 1..n |-> 25])
    \/ PagePull
    \/ PageConnect
    \/ PageExecute
    \/ PageFetchall
    \/ PageReturn
    \/ PageClose
    \/ \E pos \in 1..(MaxRows + MaxInserts + 1) : TableInsert(pos, 25)
    \/ \E pos \in 1..(MaxRows + MaxInserts) : TableDelete(pos)

\* The scripts of the generators package: one of them runs in a behaviour.
GenNext == StreamNext \/ PageNext

\* ------------------------------------------ 3-concurrent.py: fetch_concurrently
\* The two coroutines gather runs as tasks: 1 is async_fetch_users, 2 is
\* async_fetch_older_users.
Tasks == {1, 2}
\* The ages in the users table; 40 is the threshold of the second query.
UserAges == {30, 40, 50}
UserTables == UNION {[1..n -> UserAges] : n \in 0..MaxUsers}
\* SELECT * FROM users;  and  SELECT * FROM users WHERE age > 40;
Query(k, rows) == IF k = 1 THEN rows ELSE SelectSeq(rows, LAMBDA r : r.age > 40)
NoRows == <<"none">>
Event(k, op, c) == [task |-> k, op |-> op, conn |-> c]

InitConc ==
    /\ fpc = "idle"
    /\ ftable = <<>>
    /\ fconns = <<>>
    /\ flog = <<>>
    /\ ferr = NoExc
    /\ fout = NoOutcome
    /\ kpc = [k \in Tasks |-> "none"]
    /\ kconn = [k \in Tasks |-> 0]
    /\ kres = [k \in Tasks |-> NoRows]
    /\ kexc = [k \in Tasks |-> NoExc]

nonConc ==
    <<txnVars, retryVars, cacheVars, scopeVars, genVars, pageVars, loadVars,
      accessVars, chatVars, execVars, stackVars>>

\* lines 29 to 32: gather wraps the two coroutines in tasks and the caller
\* waits; neither has run yet.
FcCall(t) ==
    /\ fpc = "idle"
    /\ fpc' = "gather"
    /\ ftable' = Rows(t)
    /\ kpc' = [k \in Tasks |-> "connect"]
    /\ UNCHANGED <<fconns, flog, ferr, fout, kconn, kres, kexc, nonConc>>

\* What gather keeps of a task that ended with an error: the first one.
FirstError(e) == IF ferr = NoExc THEN e ELSE ferr

\* lines 9 and 19: async with aiosqlite.connect(DB_NAME) as db.  A failure
\* to connect ends the task with nothing to close.
TaskConnect(k) ==
    /\ kpc[k] = "connect"
    /\ \/ /\ fconns' = Append(fconns, [owner |-> k, open |-> TRUE])
          /\ kconn' = [kconn EXCEPT ![k] = Len(fconns) + 1]
          /\ flog' = Append(flog, Event(k, "connect", Len(fconns) + 1))
          /\ kpc' = [kpc EXCEPT ![k] = "execute"]
          /\ UNCHANGED <<kexc, ferr>>
       \/ /\ kexc' = [kexc EXCEPT ![k] = Exc("OperationalError", "connect", k)]
          /\ ferr' = FirstError(Exc("OperationalError", "connect", k))
          /\ flog' = Append(flog, Event(k, "connect!", 0))
          /\ kpc' = [kpc EXCEPT ![k] = "failed"]
          /\ UNCHANGED <<fconns, kconn>>
    /\ UNCHANGED <<fpc, ftable, fout, kres, nonConc>>

\* lines 10 and 20: async with db.execute(...) as cursor.  A failure leaves
\* through the outer async with, which closes the connection.
TaskExecute(k) ==
    /\ kpc[k] = "execute"
    /\ \/ /\ flog' = Append(flog, Event(k, "execute", kconn[k]))
          /\ kpc' = [kpc EXCEPT ![k] = "fetchall"]
          /\ kexc' = kexc
       \/ /\ flog' = Append(flog, Event(k, "execute!", kconn[k]))
          /\ kpc' = [kpc EXCEPT ![k] = "closing"]
          /\ kexc' = [kexc EXCEPT ![k] = Exc("OperationalError", "execute", k)]
    /\ UNCHANGED <<fpc, ftable, fconns, ferr, fout, kconn, kres, nonConc>>

\* lines 11 to 15 and 21 to 25: rows = await cursor.fetchall(); the rows are
\* printed and become the return value once both async with have exited.
\* Either way the task leaves through the exit of the inner async with.
TaskFetchall(k) ==
    /\ kpc[k] = "fetchall"
    /\ \/ /\ flog' = Append(flog, Event(k, "fetch", kconn[k]))
          /\ kres' = [kres EXCEPT ![k] = Query(k, ftable)]
          /\ kexc' = kexc
       \/ /\ flog' = Append(flog, Event(k, "fetch!", kconn[k]))
          /\ kres' = kres
          /\ kexc' = [kexc EXCEPT ![k] = Exc("OperationalError", "fetch", k)]
    /\ kpc' = [kpc EXCEPT ![k] = "closecursor"]
    /\ UNCHANGED <<fpc, ftable, fconns, ferr, fout, kconn, nonConc>>

\* The exit of the inner async with (lines 10 and 20) awaits cursor.close():
\* the task returns to the event loop with its connection still open.  An
\* error of the close replaces the pending one and leaves through the outer
\* async with.
TaskCloseCursor(k) ==
    /\ kpc[k] = "closecursor"
    /\ \/ /\ flog' = flog
          /\ kexc' = kexc
       \/ /\ flog' = Append(flog, Event(k, "cursor.close!", kconn[k]))
          /\ kexc' = [kexc EXCEPT ![k] = Exc("OperationalError", "cursor.close", k)]
    /\ kpc' = [kpc EXCEPT ![k] = "closing"]
    /\ UNCHANGED <<fpc, ftable, fconns, ferr, fout, kconn, kres, nonConc>>

\* What is left of a connection whose close failed: still open, or given up
\* by the driver.
AfterFailedClose == {TRUE, FALSE}

\* The exit of the outer async with (lines 9 and 19) awaits db.close(); then
\* the task returns its rows or ends with its pending error.  An error of
\* the close is the error the task ends with.
TaskClose(k) ==
    /\ kpc[k] = "closing"
    /\ \/ /\ fconns' = [fconns EXCEPT ![kconn[k]].open = FALSE]
          /\ flog' = Append(flog, Event(k, "close", kconn[k]))
          /\ kexc' = kexc
       \/ /\ \E o \in AfterFailedClose : fconns' = [fconns EXCEPT ![kconn[k]].open = o]
          /\ flog' = Append(flog, Event(k, "close!", kconn[k]))
          /\ kexc' = [kexc EXCEPT ![k] = Exc("OperationalError", "close", k)]
    /\ kpc' = [kpc EXCEPT ![k] = IF kexc'[k] = NoExc THEN "done" ELSE "failed"]
    /\ ferr' = IF kexc'[k] = NoExc THEN ferr ELSE FirstError(kexc'[k])
    /\ UNCHANGED <<fpc, ftable, fout, kconn, kres, nonConc>>

\* A gather that hands over as soon as one task has returned.
AllDone_AnyOne == \E k \in Tasks : kpc[k] = "done"
\* gather without return_exceptions: its result is ready when every task
\* has returned.
AllDone == \A k \in Tasks : kpc[k] = "done"

\* line 33: gather's result, the tasks' results in argument order.
FcReturn ==
    /\ fpc = "gather"
    /\ ferr = NoExc
    /\ AllDone
    /\ fout' = Returned(<<kres[1], kres[2]>>)
    /\ fpc' = "done"
    /\ UNCHANGED <<ftable, fconns, flog, ferr, kpc, kconn, kres, kexc, nonConc>>

\* line 29: the first error of a task is raised at the await as soon as the
\* caller runs again; gather does not cancel or wait for the other task.
FcRaise ==
    /\ fpc = "gather"
    /\ ferr # NoExc
    /\ fout' = Raised(ferr)
    /\ fpc' = "done"
    /\ UNCHANGED <<ftable, fconns, flog, ferr, kpc, kconn, kres, kexc, nonConc>>

ConcNext ==
    \/ /\ fpc = "idle"
       /\ \E t \in UserTables : FcCall(t)
    \/ \E k \in Tasks : TaskConnect(k)
    \/ \E k \in Tasks : TaskExecute(k)
    \/ \E k \in Tasks : TaskFetchall(k)
    \/ \E k \in Tasks : TaskCloseCursor(k)
    \/ \E k \in Tasks : TaskClose(k)
    \/ FcReturn
    \/ FcRaise


\* ------------------------------------------------------ seed.insert_data
\* The records of an input file: a primary key and the other columns.
LoadIds == {1, 2}
LoadNames == {"x", "y"}
Records == [user_id : LoadIds, name : LoadNames]
Files == UNION {[1..n -> Records] : n \in 0..MaxFile}

InitLoad ==
    /\ utable = <<>>
    /\ lview = <<>>
    /\ lpc = "idle"
    /\ lfile = <<>>
    /\ li = 0
    /\ ltab0 = <<>>
    /\ lrepeat = FALSE
    /\ lins = <<>>

nonLoad ==
    <<txnVars, retryVars, cacheVars, scopeVars, genVars, pageVars, concVars,
      accessVars, chatVars, execVars, stackVars>>

\* insert_data(connection, csv_file) is called: lines 86 to 89.  The
\* connection sees the committed rows and its own uncommitted inserts.
LoadStart(f) ==
    /\ lpc \in {"idle", "committed", "failed"}
    /\ lrepeat' = (lpc = "committed" /\ f = lfile)
    /\ lfile' = f
    /\ li' = 0
    /\ ltab0' = lview
    /\ lins' = <<>>
    /\ lpc' = "loading"
    /\ UNCHANGED <<utable, lview, nonLoad>>

\* A loader that never finds the key.
Exists_Never(view, id) == FALSE
\* lines 92 and 93: SELECT user_id FROM user_data WHERE user_id=%s;
\* cursor.fetchone() is a row or None.
Exists(view, id) == \E i \in 1..Len(view) : view[i].user_id = id
\* The primary key: the store itself refuses a second row with the key.
HasKey(view, id) == \E i \in 1..Len(view) : view[i].user_id = id

\* lines 90 to 100: one record of the file.  It is skipped when its user_id
\* is found, inserted otherwise; either statement can fail, which ends the
\* load before the commit.
LoadRecord ==
    /\ lpc = "loading"
    /\ li < Len(lfile)
    /\ LET rec == lfile[li + 1] IN
       \/ /\ Exists(lview, rec.user_id)
          /\ li' = li + 1
          /\ UNCHANGED <<lview, lins, lpc>>
       \/ /\ ~Exists(lview, rec.user_id)
          /\ lins' = Append(lins, rec.user_id)
          /\ IF HasKey(lview, rec.user_id)
             THEN lpc' = "failed" /\ UNCHANGED <<lview, li>>
             ELSE lview' = Append(lview, rec) /\ li' = li + 1 /\ lpc' = lpc
       \/ /\ lpc' = "failed"
          /\ UNCHANGED <<lview, lins, li>>
    /\ UNCHANGED <<utable, lfile, ltab0, lrepeat, nonLoad>>

\* lines 102 to 104: connection.commit(); cursor.close()
LoadCommit ==
    /\ lpc = "loading"
    /\ li = Len(lfile)
    /\ \/ /\ utable' = lview
          /\ lpc' = "committed"
       \/ /\ utable' = utable
          /\ lpc' = "failed"
    /\ UNCHANGED <<lview, lfile, li, ltab0, lrepeat, lins, nonLoad>>

LoadNext ==
    \/ /\ lpc \in {"idle", "committed", "failed"}
       /\ \E f \in Files : LoadStart(f)
    \/ LoadRecord
    \/ LoadCommit

\* ------------------------------------------------ utils.access_nested_map
\* Values: a leaf, or a mapping from some keys to values; the nested maps
\* have up to two levels of mappings, as those of the parameterized tests.
MapKeys == {"a", "b"}
Leaf(n) == [kind |-> "leaf", v |-> n, items |-> <<>>]
Map(f) == [kind |-> "map", v |-> 0, items |-> f]
Leaves == {Leaf(1), Leaf(2)}
MapsTo(V) == {Map(f) : f \in UNION {[K -> V] : K \in SUBSET MapKeys}}
NestedMaps == MapsTo(Leaves \cup MapsTo(Leaves))
\* The first argument: a mapping, or (against the annotation) a leaf.
NestedArgs == NestedMaps \cup Leaves
Paths == UNION {[1..n -> MapKeys] : n \in 0..MaxPath}

InitAccess ==
    /\ npc = "idle"
    /\ nested_map = Leaf(1)
    /\ path = <<>>
    /\ ni = 0
    /\ nmap0 = Leaf(1)
    /\ nout = NoOutcome

nonAccess ==
    <<txnVars, retryVars, cacheVars, scopeVars, genVars, pageVars, concVars, loadVars,
      chatVars, execVars, stackVars>>

\* KeyError(key); the position of the key in the path is kept with it.
KeyError(key, i) == Exc("KeyError", key, i)

\* An isinstance test that takes everything for a mapping.
IsMapping_Always(val) == TRUE
\* line 39: isinstance(nested_map, Mapping)
IsMapping(val) == val.kind = "map"

\* line 41: nested_map[key].  A dict raises KeyError(key) for a key it does
\* not have; a value that is not subscriptable raises TypeError.
Subscript(val, key, i) ==
    IF val.kind # "map" THEN Raised(Exc("TypeError", key, i))
    ELSE IF key \notin DOMAIN val.items THEN Raised(KeyError(key, i))
    ELSE Returned(val.items[key])

AccessCall(m, p) ==
    /\ npc = "idle"
    /\ npc' = "loop"
    /\ nested_map' = m
    /\ nmap0' = m
    /\ path' = p
    /\ ni' = 0
    /\ UNCHANGED <<nout, nonAccess>>

\* lines 38 to 41: one iteration of for key in path.
AccessStep ==
    /\ npc = "loop"
    /\ ni < Len(path)
    /\ LET key == path[ni + 1]
           got == IF IsMapping(nested_map)
                  THEN Subscript(nested_map, key, ni + 1)
                  ELSE Raised(KeyError(key, ni + 1))
       IN IF got.kind = "return"
          THEN /\ nested_map' = got.value
               /\ ni' = ni + 1
               /\ UNCHANGED <<npc, nout>>
          ELSE /\ nout' = got
               /\ npc' = "done"
               /\ UNCHANGED <<nested_map, ni>>
    /\ UNCHANGED <<path, nmap0, nonAccess>>

\* line 43: return nested_map
AccessReturn ==
    /\ npc = "loop"
    /\ ni = Len(path)
    /\ nout' = Returned(nested_map)
    /\ npc' = "done"
    /\ UNCHANGED <<nested_map, path, ni, nmap0, nonAccess>>

AccessNext ==
    \/ /\ npc = "idle"
       /\ \E m \in NestedArgs, p \in Paths : AccessCall(m, p)
    \/ AccessStep
    \/ AccessReturn

\* ================================== messaging_app/chats: MessageViewSet
\* The message endpoints of the chat API over the conversations and the
\* messages they read and write.  Each request is handled in one step; the
\* last request and its response are kept.  Every request comes from an
\* authenticated user (has_permission turns the others away before any of
\* the code below runs) and carries a well-formed body and well-formed ids.
ChatUsers == {1, 2, 3}
ConvIds == {1, 2}
\* An id that is not given: no conversation_pk in the URL, no query
\* parameter, no field in the payload.
NoId == 0
PageSizeParams == {0, 1}

\* models.py, lines 47-52: Message(message_id, conversation_id, sender_id).
\* The keys are handed out in the order the messages are created, which is
\* also their sent_at order; a key is never used twice.
Message(id, c, s) == [message_id |-> id, conversation_id |-> c, sender_id |-> s]
MsgOf(pk) == messages[CHOOSE i \in 1..Len(messages) : messages[i].message_id = pk]

\* pagination.py, lines 36-38
page_size == 20
max_page_size == 100

\* The participants_id of a payload: a list of users, one entry per entry of
\* the payload, duplicates kept.
Payloads == UNION {[1..n -> ChatUsers] : n \in 0..MaxPayload}
Range(list) == {list[i] : i \in 1..Len(list)}

Request(op, u, nested, query, size, pk, conv, sender) ==
    [op |-> op, user |-> u, conversation_pk |-> nested, conversation_id |-> query,
     page_size |-> size, pk |-> pk, payload_conversation |-> conv, payload_sender |-> sender]
NoRequest == Request("none", NoId, NoId, NoId, 0, 0, NoId, NoId)
Response(status, data, detail) == [status |-> status, data |-> data, detail |-> detail]
NoResponse == Response(0, <<>>, "")

InitChat ==
    /\ participants = [c \in ConvIds |-> {}]
    /\ messages = <<>>
    /\ sent = 0
    /\ hreq = NoRequest
    /\ hresp = NoResponse

nonChat ==
    <<txnVars, retryVars, cacheVars, scopeVars, genVars, pageVars, concVars, loadVars,
      accessVars, execVars, stackVars>>

\* A conversation is stored when it has participants: one is created with
\* at least one, and loses them only when it is deleted.  ConvIds are the
\* places of the conversations table.
ConvExists(c) == c \in ConvIds /\ participants[c] # {}

\* conversation.participants_id.filter(user_id=u).exists()
IsParticipant(c, u) == c \in ConvIds /\ u \in participants[c]

\* serializers.py, lines 169-185: ConversationSerializer.validate counts the
\* entries of the list.
ValidParticipants(list) == Len(list) >= 2 /\ Len(list) <= 10

\* views.py, lines 46-65: ConversationViewSet.create.  set() stores every
\* user of the list once.
ConvCreate(c, list) ==
    /\ ~ConvExists(c)
    /\ hreq' = Request("conversation.create", NoId, NoId, NoId, 0, 0, c, NoId)
    /\ IF ValidParticipants(list)
       THEN /\ participants' = [participants EXCEPT ![c] = Range(list)]
            /\ hresp' = Response(201, <<>>, "")
       ELSE /\ hresp' = Response(400, <<>>, "participants_id")
            /\ UNCHANGED participants
    /\ UNCHANGED <<messages, sent, nonChat>>

\* views.py, lines 23-44: the update ConversationViewSet inherits.
\* get_object takes the conversation from get_queryset, which shows it to
\* its participants only.
ConvUpdate(u, c, list) ==
    /\ hreq' = Request("conversation.update", u, NoId, NoId, 0, 0, c, NoId)
    /\ IF ~IsParticipant(c, u)
       THEN /\ hresp' = Response(404, <<>>, "Not found.")
            /\ UNCHANGED participants
       ELSE IF ValidParticipants(list)
       THEN /\ participants' = [participants EXCEPT ![c] = Range(list)]
            /\ hresp' = Response(200, <<>>, "")
       ELSE /\ hresp' = Response(400, <<>>, "participants_id")
            /\ UNCHANGED participants
    /\ UNCHANGED <<messages, sent, nonChat>>

\* views.py, line 23: the destroy ConversationViewSet inherits; models.py,
\* line 49: on_delete=CASCADE removes the conversation's messages with it.
ConvDestroy(u, c) ==
    /\ hreq' = Request("conversation.destroy", u, NoId, NoId, 0, 0, c, NoId)
    /\ IF ~IsParticipant(c, u)
       THEN /\ hresp' = Response(404, <<>>, "Not found.")
            /\ UNCHANGED <<participants, messages>>
       ELSE /\ participants' = [participants EXCEPT ![c] = {}]
            /\ messages' = SelectSeq(messages, LAMBDA m : m.conversation_id # c)
            /\ hresp' = Response(204, <<>>, "")
    /\ UNCHANGED <<sent, nonChat>>

\* A queryset that leaves the participant filter out.
GetQueryset_All(u, nested) ==
    {messages[i].message_id : i \in {j \in 1..Len(messages) :
        nested # NoId => messages[j].conversation_id = nested}}
\* views.py, lines 95-112: MessageViewSet.get_queryset, as the set of the
\* keys of its messages.
GetQueryset(u, nested) ==
    {messages[i].message_id : i \in {j \in 1..Len(messages) :
        /\ nested # NoId => messages[j].conversation_id = nested
        /\ IsParticipant(messages[j].conversation_id, u)}}

\* order_by('sent_at')
OrderBySentAt(S) ==
    [k \in 1..Cardinality(S) |-> CHOOSE i \in S : Cardinality({j \in S : j < i}) = k - 1]

\* PageNumberPagination.get_page_size with lines 36-38 of pagination.py:
\* a positive page_size parameter, cut off at max_page_size; without one,
\* or with one that is not positive, page_size.
GetPageSize(size) == IF size > 0 THEN Min(size, max_page_size) ELSE page_size

\* views.py, lines 152-168: MessageViewSet.list.  The override serializes the
\* whole queryset: it calls neither filter_queryset nor paginate_queryset.
MsgList(u, nested, query, size) ==
    LET queryset == GetQueryset(u, nested)
        filtered == IF query # NoId
                    THEN {i \in queryset : MsgOf(i).conversation_id = query}
                    ELSE queryset
    IN /\ hreq' = Request("list", u, nested, query, size, 0, NoId, NoId)
       /\ hresp' = Response(200, OrderBySentAt(filtered), "")
       /\ UNCHANGED <<participants, messages, sent, nonChat>>

\* permissions.py, line 45: obj.sender_id is the sender, a user object, and
\* request.user.user_id is a key; the two never compare equal.
IsSender(m, u) == FALSE

\* permissions.py, lines 39-54: has_object_permission.  The branch for PUT,
\* PATCH and DELETE and the last line test the same two conditions.
HasObjectPermission(u, m) == IsSender(m, u) \/ IsParticipant(m.conversation_id, u)

\* get_object: the message is taken from get_queryset (404 when it is not
\* there), then the object permission is checked (403).
GetObject(u, nested, pk) ==
    IF pk \notin GetQueryset(u, nested) THEN Response(404, <<>>, "Not found.")
    ELSE IF ~HasObjectPermission(u, MsgOf(pk)) THEN Response(403, <<>>, "permission_denied")
    ELSE Response(200, <<pk>>, "")

\* The retrieve MessageViewSet inherits.
MsgRetrieve(u, nested, pk) ==
    /\ hreq' = Request("retrieve", u, nested, NoId, 0, pk, NoId, NoId)
    /\ hresp' = GetObject(u, nested, pk)
    /\ UNCHANGED <<participants, messages, sent, nonChat>>

\* serializers.py, lines 107-118: MessageSerializer.validate
Validate(sender, conversation) ==
    (sender # NoId /\ conversation # NoId) => IsParticipant(conversation, sender)

\* views.py, lines 114-150: MessageViewSet.create
MsgCreate(u, nested, conv, sender) ==
    LET data_sender == u
        data_conversation == IF nested # NoId THEN nested ELSE conv
    IN /\ hreq' = Request("create", u, nested, NoId, 0, 0, conv, sender)
       /\ IF ~ConvExists(data_conversation)
          THEN \* line 135: the conversation_id field is required and must
               \* name a stored conversation
               /\ hresp' = Response(400, <<>>, "conversation_id")
               /\ UNCHANGED <<messages, sent>>
          ELSE IF ~Validate(data_sender, data_conversation)
          THEN \* line 135: is_valid runs validate, lines 107-118
               /\ hresp' = Response(400, <<>>,
                      "Sender must be a participant in this conversation")
               /\ UNCHANGED <<messages, sent>>
          ELSE IF ~IsParticipant(data_conversation, u)
          THEN \* lines 139-143
               /\ hresp' = Response(403, <<>>,
                      "You are not a participant in this conversation.")
               /\ UNCHANGED <<messages, sent>>
          ELSE \* lines 146-150
               /\ sent < MaxMsgs
               /\ sent' = sent + 1
               /\ messages' = Append(messages, Message(sent + 1, data_conversation, data_sender))
               /\ hresp' = Response(201, <<sent + 1>>, "")
       /\ UNCHANGED <<participants, nonChat>>

\* The fields of MessageSerializer a payload must carry: conversation_id and
\* sender_id are writable (serializers.py, line 82) and required by PUT; a
\* conversation_id that is given must name a stored conversation.
FieldErrors(partial, conv, sender) ==
    IF (conv = NoId /\ ~partial) \/ (conv # NoId /\ ~ConvExists(conv))
    THEN (IF sender = NoId /\ ~partial THEN "conversation_id, sender_id" ELSE "conversation_id")
    ELSE (IF sender = NoId /\ ~partial THEN "sender_id" ELSE "")

\* views.py, line 79: the update (PUT) and partial_update (PATCH)
\* MessageViewSet inherits.  The fields of the payload are validated
\* (serializers.py, lines 107-118, on the payload alone) and written to the
\* message; sent_at and the key stay.
MsgUpdate(u, nested, pk, partial, conv, sender) ==
    /\ hreq' = Request(IF partial THEN "partial_update" ELSE "update",
                       u, nested, NoId, 0, pk, conv, sender)
    /\ IF GetObject(u, nested, pk).status # 200
       THEN /\ hresp' = GetObject(u, nested, pk)
            /\ UNCHANGED messages
       ELSE IF FieldErrors(partial, conv, sender) # ""
       THEN /\ hresp' = Response(400, <<>>, FieldErrors(partial, conv, sender))
            /\ UNCHANGED messages
       ELSE IF ~Validate(sender, conv)
       THEN /\ hresp' = Response(400, <<>>,
                   "Sender must be a participant in this conversation")
            /\ UNCHANGED messages
       ELSE /\ messages' =
                   [i \in 1..Len(messages) |->
                       IF messages[i].message_id # pk THEN messages[i]
                       ELSE Message(pk,
                                IF conv # NoId THEN conv ELSE messages[i].conversation_id,
                                IF sender # NoId THEN sender ELSE messages[i].sender_id)]
            /\ hresp' = Response(200, <<pk>>, "")
    /\ UNCHANGED <<participants, sent, nonChat>>

\* views.py, line 79: the destroy MessageViewSet inherits.
MsgDestroy(u, nested, pk) ==
    /\ hreq' = Request("destroy", u, nested, NoId, 0, pk, NoId, NoId)
    /\ IF GetObject(u, nested, pk).status # 200
       THEN /\ hresp' = GetObject(u, nested, pk)
            /\ UNCHANGED messages
       ELSE /\ messages' = SelectSeq(messages, LAMBDA m : m.message_id # pk)
            /\ hresp' = Response(204, <<>>, "")
    /\ UNCHANGED <<participants, sent, nonChat>>

\* The response is handed over and the request is over: the next request
\* finds the conversations and the messages as this one left them.
ChatRespond ==
    /\ hreq # NoRequest
    /\ hreq' = NoRequest
    /\ hresp' = NoResponse
    /\ UNCHANGED <<participants, messages, sent, nonChat>>

\* Requests are handled one at a time.
ChatNext ==
    \/ /\ hreq = NoRequest
       /\ \E c \in ConvIds, list \in Payloads : ConvCreate(c, list)
    \/ /\ hreq = NoRequest
       /\ \E u \in ChatUsers, c \in ConvIds, list \in Payloads : ConvUpdate(u, c, list)
    \/ /\ hreq = NoRequest
       /\ \E u \in ChatUsers, c \in ConvIds : ConvDestroy(u, c)
    \/ /\ hreq = NoRequest
       /\ \E u \in ChatUsers, nested \in ConvIds \cup {NoId}, query \in ConvIds \cup {NoId},
             size \in PageSizeParams : MsgList(u, nested, query, size)
    \/ /\ hreq = NoRequest
       /\ \E u \in ChatUsers, nested \in ConvIds \cup {NoId}, pk \in 1..MaxMsgs :
             MsgRetrieve(u, nested, pk)
    \/ /\ hreq = NoRequest
       /\ \E u \in ChatUsers, nested \in ConvIds \cup {NoId}, conv \in ConvIds \cup {NoId},
             sender \in ChatUsers \cup {NoId} : MsgCreate(u, nested, conv, sender)
    \/ /\ hreq = NoRequest
       /\ \E u \in ChatUsers, nested \in ConvIds \cup {NoId}, pk \in 1..MaxMsgs,
             partial \in BOOLEAN, conv \in ConvIds \cup {NoId},
             sender \in ChatUsers \cup {NoId} : MsgUpdate(u, nested, pk, partial, conv, sender)
    \/ /\ hreq = NoRequest
       /\ \E u \in ChatUsers, nested \in ConvIds \cup {NoId}, pk \in 1..MaxMsgs :
             MsgDestroy(u, nested, pk)
    \/ ChatRespond

\* ------------------------------------------- 1-execute.py: ExecuteQuery
\* One with statement over ExecuteQuery(db_name, query, param), the query
\* being SELECT * FROM users WHERE age > ?.  connection and cursor are the
\* attributes of the context manager: "none" (None), "open", "closed".
InitExec ==
    /\ epc = "idle"
    /\ etable = <<>>
    /\ eparam = 0
    /\ econn = "none"
    /\ ecursor = "none"
    /\ eresults = NoRows
    /\ epend = NoExc
    /\ eout = NoOutcome
    /\ elog = <<>>

nonExec ==
    <<txnVars, retryVars, cacheVars, scopeVars, genVars, pageVars, concVars, loadVars,
      accessVars, chatVars, stackVars>>

\* lines 6-11: __init__; the with statement then calls __enter__.
ExecWith(t, param) ==
    /\ epc = "idle"
    /\ etable' = Rows(t)
    /\ eparam' = param
    /\ epc' = "connect"
    /\ UNCHANGED <<econn, ecursor, eresults, epend, eout, elog, nonExec>>

\* lines 15-16: sqlite3.connect and connection.cursor().  A failure to
\* connect leaves __enter__ with nothing opened.
ExecConnect ==
    /\ epc = "connect"
    /\ \/ /\ econn' = "open"
          /\ ecursor' = "open"
          /\ elog' = Append(elog, "connect")
          /\ epc' = "execute"
          /\ eout' = eout
       \/ /\ elog' = Append(elog, "connect!")
          /\ eout' = Raised(Exc("OperationalError", "connect", 0))
          /\ epc' = "done"
          /\ UNCHANGED <<econn, ecursor>>
    /\ UNCHANGED <<etable, eparam, eresults, epend, nonExec>>

\* An error raised inside __enter__ leaves the with statement at once:
\* __exit__ is called only once __enter__ has returned.  The connection and
\* the cursor stay as they are, for the runtime to reclaim or not.
EnterFails(e) ==
    /\ epend' = e
    /\ eout' = Raised(e)
    /\ epc' = "done"
    /\ econn' \in Dropped(econn)
    /\ ecursor' \in Dropped(ecursor)

\* SELECT * FROM users WHERE age > ?
OlderThan(rows, param) == SelectSeq(rows, LAMBDA r : r.age > param)

\* line 18: self.cursor.execute(self.query, (self.param,))
ExecExecute ==
    /\ epc = "execute"
    /\ \/ /\ elog' = Append(elog, "execute")
          /\ epc' = "fetchall"
          /\ UNCHANGED <<econn, ecursor, epend, eout>>
       \/ /\ elog' = Append(elog, "execute!")
          /\ EnterFails(Exc("OperationalError", "execute", 0))
    /\ UNCHANGED <<etable, eparam, eresults, nonExec>>

\* line 19: return self.cursor.fetchall(); the rows are bound by "as".
ExecFetchall ==
    /\ epc = "fetchall"
    /\ \/ /\ elog' = Append(elog, "fetch")
          /\ eresults' = OlderThan(etable, eparam)
          /\ epc' = "body"
          /\ UNCHANGED <<econn, ecursor, epend, eout>>
       \/ /\ elog' = Append(elog, "fetch!")
          /\ eresults' = eresults
          /\ EnterFails(Exc("OperationalError", "fetch", 0))
    /\ UNCHANGED <<etable, eparam, nonExec>>

\* The with-body completes.
ExecBodyEnds ==
    /\ epc = "body"
    /\ epc' = "exit"
    /\ UNCHANGED <<etable, eparam, econn, ecursor, eresults, epend, eout, elog, nonExec>>

\* The with-body raises.
ExecBodyRaises(cls) ==
    /\ epc = "body"
    /\ epend' = Exc(cls, "body", 0)
    /\ epc' = "exit"
    /\ UNCHANGED <<etable, eparam, econn, ecursor, eresults, eout, elog, nonExec>>

\* lines 21-26: __exit__ closes the cursor and the connection that are set
\* and returns None: a pending error goes on to the caller.
CloseIfSet(c) == IF c = "none" THEN c ELSE "closed"
ExecExit ==
    /\ epc = "exit"
    /\ ecursor' = CloseIfSet(ecursor)
    /\ econn' = CloseIfSet(econn)
    /\ elog' = Append(elog, "close")
    /\ eout' = IF epend = NoExc THEN Returned(NoVal) ELSE Raised(epend)
    /\ epc' = "done"
    /\ UNCHANGED <<etable, eparam, eresults, epend, nonExec>>

ExecNext ==
    \/ /\ epc = "idle"
       /\ \E t \in Tables, param \in Ages : ExecWith(t, param)
    \/ ExecConnect
    \/ ExecExecute
    \/ ExecFetchall
    \/ ExecBodyEnds
    \/ \E cls \in FuncErrors : ExecBodyRaises(cls)
    \/ ExecExit

\* ------------- 2-transactional.py lines 29-36: update_user_email as decorated
\* with_db_connection outside transactional: the outer wrapper opens a
\* connection and passes it on as the first positional argument, the inner
\* wrapper opens its own and puts it in front.  Connections are numbered in
\* the order they are opened; an event of ulog names the connection it is
\* issued on.
Params == <<"conn", "user_id", "new_email">>
\* A call binds its positional arguments to the first parameters and its
\* keyword arguments by name; npos counts the positional arguments and kw
\* lists the keyword names in the order of the call.  The keywords are
\* bound one after the other: the first that names no parameter, or a
\* parameter a positional argument has filled, ends the call; the number of
\* positional arguments and the missing ones are looked at after that.
Filled(params, npos) == {params[i] : i \in 1..Min(npos, Len(params))}
BadKeywords(params, npos, kw) ==
    {i \in 1..Len(kw) : kw[i] \notin Range(params) \/ kw[i] \in Filled(params, npos)}
BindError(params, npos, kw) ==
    IF BadKeywords(params, npos, kw) # {}
    THEN LET first == CHOOSE i \in BadKeywords(params, npos, kw) :
                          \A j \in BadKeywords(params, npos, kw) : i <= j
         IN IF kw[first] \notin Range(params)
            THEN "got an unexpected keyword argument"
            ELSE "got multiple values for argument"
    ELSE IF npos > Len(params) THEN "takes 3 positional arguments"
    ELSE IF \E i \in (npos + 1)..Len(params) : params[i] \notin Range(kw) THEN "missing argument"
    ELSE "none"
BindOK(params, npos, kw) == BindError(params, npos, kw) = "none"

On(op, c) == [op |-> op, conn |-> c]
NoArgs == [stacked |-> FALSE, npos |-> 0, kw |-> <<>>, user_id |-> 0, new_email |-> NoVal]
\* The transactional wrapper's connection is the last one opened.
Inner == Len(uconns)

InitStack ==
    /\ upc = "idle"
    /\ uargs = NoArgs
    /\ uconns = <<>>
    /\ ulog = <<>>
    /\ uexc = NoExc
    /\ uout = NoOutcome
    /\ ucalls = 0

nonStack ==
    <<txnVars, retryVars, cacheVars, scopeVars, genVars, pageVars, concVars, loadVars,
      accessVars, chatVars, execVars>>

\* The keywords of a call: those of line 36, none when the two values are
\* passed positionally, or one more that update_user_email does not have.
KeywordsOf(how) ==
    IF how = "kw" THEN <<"user_id", "new_email">>
    ELSE IF how = "extra" THEN <<"user_id", "new_email", "bogus">>
    ELSE <<>>

\* update_user_email(user_id=..., new_email=...) as at line 36, with the
\* two values passed positionally, or with a keyword too many; decorated as at lines 29-30 (stacked), or
\* with transactional alone.  1-with_db_connection.py line 12: the outer
\* wrapper connects first.
StackCall(stacked, how, u, e) ==
    /\ upc \in {"idle", "done"}
    /\ ucalls < MaxStackCalls
    /\ ucalls' = ucalls + 1
    /\ uargs' = [stacked |-> stacked,
                 npos |-> IF how = "pos" THEN 2 ELSE 0,
                 kw |-> KeywordsOf(how),
                 user_id |-> u, new_email |-> e]
    /\ uexc' = NoExc
    /\ \/ /\ uconns' = IF stacked THEN <<"open">> ELSE <<>>
          /\ ulog' = IF stacked THEN <<On("connect", 1)>> ELSE <<>>
          /\ uout' = NoOutcome
          /\ upc' = "inner"
       \/ /\ stacked
          /\ uconns' = <<>>
          /\ ulog' = <<On("connect!", 0)>>
          /\ uout' = Raised(Exc("OperationalError", "connect", 0))
          /\ upc' = "done"
    /\ UNCHANGED nonStack

\* 1-with_db_connection.py line 15: func(conn, *args, **kwargs) calls the
\* transactional wrapper, whose line 9 connects (again, when stacked).
StackInnerConnect ==
    /\ upc = "inner"
    /\ \/ /\ uconns' = Append(uconns, "open")
          /\ ulog' = Append(ulog, On("connect", Len(uconns) + 1))
          /\ upc' = "begin"
          /\ uexc' = uexc
       \/ /\ uconns' = uconns
          /\ ulog' = Append(ulog, On("connect!", 0))
          /\ upc' = "outer_finally"
          /\ uexc' = Exc("OperationalError", "connect", 0)
    /\ UNCHANGED <<uargs, uout, ucalls, nonStack>>

\* 2-transactional.py line 12: conn.execute('BEGIN;') on the inner connection.
StackBegin ==
    /\ upc = "begin"
    /\ \/ /\ ulog' = Append(ulog, On("BEGIN", Inner))
          /\ upc' = "func"
          /\ uexc' = uexc
       \/ /\ ulog' = Append(ulog, On("BEGIN!", Inner))
          /\ upc' = "except"
          /\ uexc' = Exc("OperationalError", "begin", 0)
    /\ UNCHANGED <<uargs, uconns, uout, ucalls, nonStack>>

\* 2-transactional.py line 14: func(conn, *args, **kwargs).  When stacked,
\* args starts with the outer wrapper's connection, and update_user_email
\* receives two connections in front of the caller's arguments.  When the
\* call binds, the UPDATE of lines 32-33 runs on conn, the first argument;
\* it can fail (users.db has no users table until one is created).
StackFunc ==
    /\ upc = "func"
    /\ IF BindOK(Params, (IF uargs.stacked THEN 2 ELSE 1) + uargs.npos, uargs.kw)
       THEN \/ /\ ulog' = Append(ulog, On("stmt", Inner))
               /\ upc' = "commit"
               /\ uexc' = uexc
            \/ /\ ulog' = Append(ulog, On("stmt!", Inner))
               /\ upc' = "except"
               /\ uexc' = Exc("OperationalError", "stmt", 0)
       ELSE /\ ulog' = ulog
            /\ upc' = "except"
            /\ uexc' = Exc("TypeError", "func", 0)
    /\ UNCHANGED <<uargs, uconns, uout, ucalls, nonStack>>

\* 2-transactional.py line 16: conn.commit()
StackCommit ==
    /\ upc = "commit"
    /\ \/ /\ ulog' = Append(ulog, On("commit", Inner))
          /\ upc' = "inner_finally"
          /\ uexc' = uexc
       \/ /\ ulog' = Append(ulog, On("commit!", Inner))
          /\ upc' = "except"
          /\ uexc' = Exc("OperationalError", "commit", 0)
    /\ UNCHANGED <<uargs, uconns, uout, ucalls, nonStack>>

\* 2-transactional.py lines 17-21: rollback on the inner connection, then
\* the error is raised again.
StackExcept ==
    /\ upc = "except"
    /\ \E failed \in BOOLEAN :
          /\ ulog' = Append(ulog, On(IF failed THEN "rollback!" ELSE "rollback", Inner))
          /\ uexc' = ExceptRaises(uexc, failed)
    /\ upc' = "inner_finally"
    /\ UNCHANGED <<uargs, uconns, uout, ucalls, nonStack>>

\* 2-transactional.py lines 22-24: the inner wrapper closes its connection.
StackInnerFinally ==
    /\ upc = "inner_finally"
    /\ uconns' = [uconns EXCEPT ![Inner] = "closed"]
    /\ ulog' = Append(ulog, On("close", Inner))
    /\ upc' = "outer_finally"
    /\ UNCHANGED <<uargs, uexc, uout, ucalls, nonStack>>

\* 1-with_db_connection.py lines 16-19: the outer wrapper, when there is
\* one, closes its connection; the error goes on to the caller, or the
\* result is returned (update_user_email returns None).
StackOuterFinally ==
    /\ upc = "outer_finally"
    /\ uconns' = IF uargs.stacked THEN [uconns EXCEPT ![1] = "closed"] ELSE uconns
    /\ ulog' = IF uargs.stacked THEN Append(ulog, On("close", 1)) ELSE ulog
    /\ uout' = IF uexc = NoExc THEN Returned(NoVal) ELSE Raised(uexc)
    /\ upc' = "done"
    /\ UNCHANGED <<uargs, uexc, ucalls, nonStack>>

StackNext ==
    \/ \E stacked \in BOOLEAN, how \in {"kw", "pos", "extra"}, u \in Users, e \in Emails :
          StackCall(stacked, how, u, e)
    \/ StackInnerConnect
    \/ StackBegin
    \/ StackFunc
    \/ StackCommit
    \/ StackExcept
    \/ StackInnerFinally
    \/ StackOuterFinally

\* ------------------------------------------------------ specifications
\* The wrappers and the generators package live in separate scripts that
\* share no state: each has its own specification, in which the other
\* components stay as constructed.
Init ==
    /\ InitTxn
    /\ InitRetry
    /\ InitCache
    /\ InitScope
    /\ InitGen
    /\ InitPage
    /\ InitConc
    /\ InitLoad
    /\ InitAccess
    /\ InitChat
    /\ InitExec
    /\ InitStack

SpecTxn == Init /\ [][TxnNext]_vars
SpecRetry == Init /\ [][RetryNext]_vars
SpecCacheSeq == Init /\ [][CacheSeqNext]_vars
SpecCache == Init /\ [][CacheNext]_vars
SpecScope == Init /\ [][ScopeNext]_vars
SpecGen == Init /\ [][GenNext]_vars
SpecSharedPage == Init /\ [][SharedPageNext]_vars
SpecConc == Init /\ [][ConcNext]_vars
SpecLoad == Init /\ [][LoadNext]_vars
SpecAccess == Init /\ [][AccessNext]_vars
SpecChat == Init /\ [][ChatNext]_vars
SpecExec == Init /\ [][ExecNext]_vars
SpecStack == Init /\ [][StackNext]_vars

\* ================================================= transactional: claims
Issued(log, what) == Count(log, {what, what \o "!"})

\* C1 (as claimed): when the wrapped operation raises, the wrapper issues a
\* rollback, issues no commit, and the error that reaches the caller is the
\* error the wrapped operation raised.
C1_RollbackThenOriginalError ==
    (tpc = "done" /\ tfunc.outcome = "raised") =>
        /\ Issued(tlog, "rollback") = 1
        /\ Issued(tlog, "commit") = 0
        /\ tout = Raised(tfunc.exc)

\* C2 (as claimed): when the wrapped operation returns, the wrapper commits
\* exactly once, issues no rollback and returns the operation's value.
C2_Original ==
    (tpc = "done" /\ tfunc.outcome = "returned") =>
        /\ Issued(tlog, "commit") = 1
        /\ Issued(tlog, "rollback") = 0
        /\ tout = Returned(tfunc.value)

\* C2 (amended): when the wrapped operation returns, commit is issued
\* exactly once.  If the commit succeeds no rollback is issued, the
\* operation's writes are the store's state and the caller gets exactly the
\* operation's value; if the commit fails, one rollback is issued, the store
\* is as before the call and the caller gets the commit's error (or the
\* rollback's, if that fails too), never a value.
C2_CommitOnReturn ==
    (tpc = "done" /\ tfunc.outcome = "returned") =>
        /\ Issued(tlog, "commit") = 1
        /\ IF Count(tlog, {"commit"}) = 1
           THEN /\ Issued(tlog, "rollback") = 0
                /\ tout = Returned(tfunc.value)
                /\ tfunc.dirty <=> db # tdb0
           ELSE /\ Issued(tlog, "rollback") = 1
                /\ tout.kind = "raise"
                /\ tout.exc.src \in {"commit", "rollback"}
                /\ db = tdb0

C2_Witness ==
    /\ tpc = "done"
    /\ tfunc.outcome = "returned"
    /\ tfunc.writes > 0
    /\ db # tdb0
    /\ tout = Returned("v2")

\* C3: if the wrapped operation performs writes and then raises, the store
\* after the call is the store before the call.
C3_NoPartialCommit ==
    (tpc = "done" /\ tfunc.outcome = "raised" /\ tfunc.writes > 0) => db = tdb0

C3_Witness ==
    /\ tpc = "done"
    /\ tfunc.outcome = "raised"
    /\ tfunc.writes = MaxWrites
    /\ tfunc.dirty
    /\ Count(tlog, {"rollback"}) = 1

\* C4: the connection the wrapper opened is closed whenever no call is in
\* progress, whatever failed: a call that connected has issued exactly one
\* close by the time it returns or raises.
C4_ConnectionClosed ==
    /\ tpc \in {"idle", "done"} => ~tconn.open
    /\ tpc = "done" => Count(tlog, {"close"}) = Count(tlog, {"connect"})
    /\ tpc \in {"begin", "func", "commit", "except", "finally"} => tconn.open

C4_Witness ==
    /\ tpc = "done"
    /\ Count(tlog, {"commit!"}) = 1
    /\ Count(tlog, {"rollback!"}) = 1
    /\ Count(tlog, {"close"}) = 1

\* ============================================ retry_db_operation: claims
Invocations == Count(rlog, {"call"})
Sleeps == Count(rlog, {"sleep"})

\* C5: with retries = n > 0, an operation that fails with the retryable
\* error on its first k < n invocations and then returns is invoked exactly
\* k + 1 times, and the wrapper returns its value.
C5_SucceedsAfterKFailures ==
    (rpc = "done" /\ retries > 0 /\ rplan.then = "return" /\ rplan.k < retries) =>
        /\ Invocations = rplan.k + 1
        /\ rout = Returned(rplan.value)

C5_Witness ==
    /\ rpc = "done"
    /\ retries = 3
    /\ rplan.then = "return"
    /\ rplan.k = 2
    /\ Invocations = 3
    /\ rout = Returned("v1")

\* C6 (as claimed): with retries = n > 0, an operation that fails with the
\* retryable error on every attempt is invoked exactly n times, and the
\* wrapper raises ExhaustedRetriesError with the last failure as its cause.
C6_Original ==
    (rpc = "done" /\ retries > 0 /\ rplan.k >= retries) =>
        /\ Invocations = retries
        /\ rout.kind = "raise"
        /\ rout.exc.cls = "ExhaustedRetriesError"
        /\ rout.cause = Exc("OperationalError", "func", retries)

\* What line 20 does instead: it raises the failure of the last attempt
\* itself, the OperationalError of invocation n, with no cause set.
LastFailureRaisedBare ==
    (rpc = "done" /\ retries > 0 /\ rplan.k >= retries) =>
        /\ Invocations = retries
        /\ rout = Raised(Exc("OperationalError", "func", retries))

\* The invocation on which the scripted operation raises its non-retryable
\* error has happened.
NonRetryableFailure == rplan.then = "raise" /\ Invocations = rplan.k + 1

\* C7 (as claimed): when the wrapped operation fails with a non-retryable
\* error, that error propagates, the operation has been invoked exactly
\* once and no delay has been slept.
C7_Original ==
    (rpc = "done" /\ NonRetryableFailure) =>
        /\ rout = Raised(Exc(rplan.cls, "func", rplan.k + 1))
        /\ Invocations = 1
        /\ Sleeps = 0

\* C7 (amended): a non-retryable failure ends the call at once: as soon as
\* the failing invocation has happened the wrapper has raised that very
\* error, with no delay slept after it and no later attempt.  The only
\* invocations and delays are those of the retryable failures before it:
\* exactly one invocation and no delay when it is the first attempt.
C7_PropagatesImmediately ==
    NonRetryableFailure =>
        /\ rpc = "done"
        /\ rout = Raised(Exc(rplan.cls, "func", rplan.k + 1))
        /\ rlog[Len(rlog)] = "call"
        /\ Sleeps = rplan.k
        /\ rplan.k = 0 => (Invocations = 1 /\ Sleeps = 0)

C7_Witness ==
    /\ rpc = "done"
    /\ rplan.then = "raise"
    /\ rplan.k = 0
    /\ retries > 1
    /\ Invocations = 1
    /\ rout = Raised(Exc("ValueError", "func", 1))

\* ==================================================== cache_query: claims
\* The query signature of a call is the request it makes: its query text
\* (the operation takes no other parameter).  The key is what the wrapper
\* derives from the call's arguments at line 12.
InvocationsFor(q) == {h \in chist : h.query = q}
CallsFor(q) == {r \in cret : r.query = q}
ResultsFor(q) == {r.out.res : r \in {x \in CallsFor(q) : x.out.kind = "return"}}
EntriesFor(q) == {k \in DOMAIN cache : cache[k].query = q}
ComputedFor(q) == {Res(h.query, h.inv) : h \in {g \in InvocationsFor(q) : g.ok}}

\* C8, one caller, for non-empty query texts and operations that return:
\* the operation is invoked at most once per query signature (exactly once
\* by two calls with the same signature), and the calls of one signature all
\* return the same result.
C8_InvokedOncePerSignature ==
    \A q \in Queries \ {0} :
        (\A h \in InvocationsFor(q) : h.ok) =>
            /\ Cardinality(InvocationsFor(q)) <= 1
            /\ Cardinality(ResultsFor(q)) <= 1

\* Both callers have finished a call with the same query signature, a
\* non-empty query text, and no invocation of the operation raised.
RaceOver ==
    /\ cpc[1] = "done"
    /\ cpc[2] = "done"
    /\ ccall[1].query = ccall[2].query
    /\ ccall[1].query # 0
    /\ \A h \in chist : h.ok

\* C9, two callers racing on one signature, for non-empty query texts and
\* operations that return:
\* each caller returns a result the operation computed for that signature,
\* and afterwards the cache holds exactly one entry for the signature, one
\* of the computed results.
C9_RaceLeavesOneEntry ==
    RaceOver =>
        /\ \A t \in Callers :
              cout[t].kind = "return" /\ cout[t].res \in ComputedFor(ccall[t].query)
        /\ Cardinality(EntriesFor(ccall[1].query)) = 1
        /\ \A k \in EntriesFor(ccall[1].query) : cache[k] \in ComputedFor(ccall[1].query)

\* What the code does guarantee, per derived key instead of per signature.
SeenKeys == {h.key : h \in chist} \cup {r.key : r \in cret}
InvocationsOf(k) == {h \in chist : h.key = k}
ReturnsOf(k) == {h \in chist : h.key = k /\ h.ok}
ResultsGiven(k) == {r.out.res : r \in {x \in cret : x.key = k /\ x.out.kind = "return"}}

\* One caller: the operation returns at most once per key and is not invoked
\* for a key after it has returned for it; every call that returns gives the
\* result of that one invocation.
PerKeyInvokedOnce ==
    \A k \in SeenKeys :
        /\ Cardinality(ReturnsOf(k)) <= 1
        /\ \A h \in ReturnsOf(k) : \A g \in InvocationsOf(k) : g.inv <= h.inv
        /\ \A r \in ResultsGiven(k) : \E h \in ReturnsOf(k) : r = Res(h.query, h.inv)

\* Two callers with the same key: each returns a result computed under that
\* key, and the cache ends with that key bound to one of those results.
PerKeyRace ==
    (cpc[1] = "done" /\ cpc[2] = "done" /\ ckey[1] = ckey[2] /\ \A h \in chist : h.ok) =>
        /\ \A t \in Callers :
              cout[t].kind = "return"
              /\ \E h \in ReturnsOf(ckey[t]) : cout[t].res = Res(h.query, h.inv)
        /\ CacheHit(cache, ckey[1])
        /\ \E h \in ReturnsOf(ckey[1]) : cache[ckey[1]] = Res(h.query, h.inv)

\* ============================================== connection scopes: claims
\* C10: a connection scope closes the connection it opened on every way
\* out of the enclosed operation: between scopes no connection is open, and
\* inside a scope only that scope's connection is.
C10_ScopeClosesConnection ==
    /\ spc \in {"idle", "done"} => sopen = {}
    /\ spc \in {"body", "exit"} => sopen = {sconn}
    /\ (spc = "done" /\ sconn # 0) => Count(slog, {"close"}) = 1

C10_Witness ==
    /\ spc = "done"
    /\ scalls = 2
    /\ sout.kind = "raise"
    /\ sout.exc.src = "func"
    /\ Count(slog, {"stmt"}) > 0
    /\ Count(slog, {"close"}) = 1

\* ==================================================== generators: claims
RECURSIVE Concat(_)
Concat(ss) == IF ss = <<>> THEN <<>> ELSE Head(ss) \o Concat(Tail(ss))
RECURSIVE SumSeq(_)
SumSeq(ns) == IF ns = <<>> THEN 0 ELSE Head(ns) + SumSeq(Tail(ns))
AllOpen(conns) == {i \in 1..Len(conns) : conns[i] = "open"}

\* C11 (as claimed): when the consumer stops pulling from stream_users,
\* stream_users_in_batches (directly or through batch_processing) or
\* stream_user_ages before the sequence is exhausted, and closes or abandons
\* the generator, the connection the sequence holds is released.
C11_AbandonedStreamReleased ==
    gpc = "closed" => gconn # "open"

\* C12 (as claimed): when the query execution or a row fetch fails during a
\* stream (stream_users_in_batches, stream_user_ages) or a page fetch
\* (paginate_users), the error ends the stream or call and no connection
\* opened for it is left open.
C12_FailedFetchClosesConnection ==
    /\ (gpc = "failed" /\ gexc.src \in {"execute", "fetch"}) => gconn # "open"
    /\ (ppc = "failed" /\ pexc.src \in {"execute", "fetch"}) => AllOpen(pconns) = {}

IsPrefix(s, t) == Len(s) <= Len(t) /\ s = SubSeq(t, 1, Len(s))
Batched == gfn = "stream_users_in_batches"

\* C13: for every batch_size > 0 and table of N rows, the batches yielded by
\* stream_users_in_batches are, concatenated, the rows read so far in cursor
\* order, each once, and all N rows once the generator is exhausted; every
\* batch is non-empty, every batch followed by another has exactly
\* batch_size rows, and the last has between 1 and batch_size.
C13_BatchesPartitionRows ==
    (Batched /\ gsize > 0) =>
        /\ IsPrefix(Concat(gout), gdata)
        /\ gpc = "done" => Concat(gout) = gdata
        /\ \A i \in 1..Len(gout) : Len(gout[i]) >= 1 /\ Len(gout[i]) <= gsize
        /\ \A i \in 1..(Len(gout) - 1) : Len(gout[i]) = gsize

\* Three rows in batches of two: a full batch and a shorter last one.
C13_Witness ==
    /\ Batched
    /\ gpc = "done"
    /\ gsize = 2
    /\ Len(gdata) = 3
    /\ Len(gout) = 2
    /\ Len(gout[2]) = 1

\* C14: a traversal of stream_users_in_batches opens at most one connection
\* and executes at most one query, exactly one of each when it runs to its
\* end, however many batches it yields; a read of the cursor that finds no
\* row (batch_size > 0: with 0 the cursor is never read) yields nothing,
\* and the generator then ends with every row read and the connection
\* closed.
C14_OneConnectionOneQuery ==
    [][Batched' =>
        /\ Issued(glog', "connect") <= 1
        /\ Issued(glog', "execute") <= 1
        /\ gpc' = "done" =>
            /\ Count(glog', {"connect"}) = 1
            /\ Count(glog', {"execute"}) = 1
            /\ gconn' = "closed"
        /\ (gpc = "fetch" /\ gsize > 0 /\ gpos = Len(gdata) /\ gpc' # "failed") =>
            (gpc' = "cleanup" /\ gout' = gout)
        /\ (gpc = "cleanup" /\ gsize > 0) =>
            (gpos = Len(gdata) /\ gpc' = "done" /\ gconn' = "closed")]_vars

\* A traversal of three batches that reached its end.
C14_Witness ==
    /\ Batched
    /\ gpc = "done"
    /\ Len(gout) = 3
    /\ Count(glog, {"fetch"}) = 4
    /\ Count(glog, {"connect"}) = 1
    /\ gconn = "closed"

Ceil(n, d) == (n + d - 1) \div d

\* C15: for every page_size > 0 and table of N rows, lazy_pagination never
\* yields more than ceil(N / page_size) pages and is never pulled more than
\* once beyond that; when it ends it has yielded exactly that many pages;
\* no yielded page is empty.
C15_PagesUntilEmptyFetch ==
    (ppc # "none" /\ psize > 0) =>
        /\ Len(pout) <= Ceil(Len(pdata), psize)
        /\ ppulls <= Ceil(Len(pdata), psize) + 1
        /\ ppc = "done" =>
            /\ Len(pout) = Ceil(Len(pdata), psize)
            /\ page = <<>>
        /\ \A i \in 1..Len(pout) : pout[i] # <<>>

\* Three rows in pages of two: two pages, then the empty fetch.
C15_Witness ==
    /\ ppc = "done"
    /\ psize = 2
    /\ Len(pdata) = 3
    /\ Len(pout) = 2
    /\ Count(plog, {"fetch"}) = 3

\* C16: every page fetch of lazy_pagination opens one connection, and that
\* connection is closed when the page is handed over: whenever the paginator
\* is suspended between pages (or has ended) no connection it opened is
\* open, and it has opened one connection per page fetched.
C16_NoConnectionBetweenPages ==
    /\ Len(pconns) <= ppulls
    /\ Cardinality(AllOpen(pconns)) <= 1
    /\ ppc \in {"created", "yielded", "done", "closed"} => AllOpen(pconns) = {}
    /\ ppc = "yielded" =>
        /\ Len(pconns) = Len(pout)
        /\ Count(plog, {"connect"}) = Count(plog, {"close"})

\* The paginator suspended after its second page.
C16_Witness ==
    /\ ppc = "yielded"
    /\ Len(pout) = 2
    /\ pconns = <<"closed", "closed">>

Over25(r) == r.age > 25

\* C17: batch_processing yields exactly the rows of the batch sequence whose
\* age is greater than 25, each once and in their order: what it has yielded
\* is the selection of the rows it has examined, which it takes from the
\* batches in order; at its end it has examined every row.  For the ages
\* 30, 20, 40 and batch size 2 it yields rows 1 and 3.
C17_YieldsRowsOver25 ==
    (gcons = "batch_processing") =>
        /\ bout = SelectSeq(bexam, Over25)
        /\ IsPrefix(bexam, Concat(gout))
        /\ bpc = "done" =>
            /\ bexam = Concat(gout)
            /\ gsize > 0 => bout = SelectSeq(gdata, Over25)
        /\ (bpc = "done" /\ gsize = 2
                /\ gdata = <<Row(1, 30), Row(2, 20), Row(3, 40)>>) =>
            bout = <<Row(1, 30), Row(3, 40)>>

\* The example of the claim, run to its end.
C17_Witness ==
    /\ gcons = "batch_processing"
    /\ bpc = "done"
    /\ gsize = 2
    /\ gdata = <<Row(1, 30), Row(2, 20), Row(3, 40)>>
    /\ bout = <<Row(1, 30), Row(3, 40)>>

AllButLast(s) == SubSeq(s, 1, Len(s) - 1)

\* C18: nothing is fetched ahead of the consumer.  lazy_pagination and
\* stream_users_in_batches have issued no store call before the first pull
\* and never more fetches than pulls, and when a page or batch has just been
\* handed over, the fetches issued equal the pages or batches handed over;
\* batch_processing asks for a batch only when it has examined every row of
\* the batches it received before.
C18_NoPrefetch ==
    /\ ppc = "created" => plog = <<>>
    /\ Issued(plog, "fetch") <= ppulls
    /\ ppc = "yielded" => Issued(plog, "fetch") = Len(pout)
    /\ Batched =>
        /\ gpc = "created" => glog = <<>>
        /\ Issued(glog, "fetch") <= gpulls
        /\ gpc = "yielded" => Issued(glog, "fetch") = Len(gout)
    /\ gcons = "batch_processing" =>
        /\ bpulls = 0 => gpulls = 0
        /\ gpc = "yielded" =>
            bexam = Concat(AllButLast(gout)) \o SubSeq(CurrentBatch, 1, bidx)
        /\ gpc \notin {"yielded", "closed"} => bexam = Concat(gout)

\* batch_processing in its second batch, all of the first one examined.
C18_Witness ==
    /\ gcons = "batch_processing"
    /\ gpc = "yielded"
    /\ gsize = 2
    /\ Len(gout) = 2
    /\ Len(bexam) = 2
    /\ bidx = 0
    /\ Count(glog, {"fetch"}) = 2

\* C19: compute_average_age over an age sequence that ended without an age
\* returns 0, and no call of it ends in a division error.
C19_EmptyAverageIsZero ==
    (gcons = "compute_average_age") =>
        /\ (apc = "done" /\ gpc = "done" /\ gout = <<>>) => aout = Returned(Number(0))
        /\ aout.exc.cls # "ZeroDivisionError"

\* The average over an empty table.
C19_Witness ==
    /\ gcons = "compute_average_age"
    /\ apc = "done"
    /\ gpc = "done"
    /\ gdata = <<>>
    /\ aout = Returned(Number(0))

\* C20: compute_average_age traverses the age sequence once (one
\* connection, one query, one pull per age and one more); after k ages
\* total is their sum and count is k; over a non-empty sequence it returns
\* total / count, the mean of all ages, which is 30 for 30, 20, 40.
C20_RunningTotalAndCount ==
    (gcons = "compute_average_age") =>
        /\ count <= Len(gout)
        /\ total = SumSeq(SubSeq(gout, 1, count))
        /\ Issued(glog, "connect") <= 1
        /\ Issued(glog, "execute") <= 1
        /\ (apc = "done" /\ gpc = "done") =>
            /\ count = Len(gdata)
            /\ gpulls = Len(gdata) + 1
            /\ count > 0 =>
                /\ aout.kind = "return"
                /\ aout.value.num * count = total * aout.value.den
                /\ aout.value.den > 0
                /\ Gcd(aout.value.num, aout.value.den) = 1
        /\ (apc = "done" /\ gpc = "done"
                /\ gdata = <<Row(1, 30), Row(2, 20), Row(3, 40)>>) =>
            aout = Returned(Number(30))

\* The example of the claim, run to its end.
C20_Witness ==
    /\ gcons = "compute_average_age"
    /\ apc = "done"
    /\ gdata = <<Row(1, 30), Row(2, 20), Row(3, 40)>>
    /\ total = 90
    /\ count = 3
    /\ aout = Returned(Number(30))

\* ============================ generators: connection and argument errors
Last(s) == s[Len(s)]
PullOver(pc) == pc \in {"yielded", "done", "failed"}

\* C22 (as claimed): when the connection cannot be opened, the age stream of
\* stream_user_ages and the page fetch of paginate_users are aborted with a
\* ConnectionError, before any query is executed.
C22_ConnectFailureIsConnectionError ==
    /\ (gfn = "stream_user_ages" /\ gpc = "failed" /\ Last(glog) = "connect!") =>
        (gexc.cls = "ConnectionError" /\ Issued(glog, "execute") = 0)
    /\ (ppc = "failed" /\ Last(plog) = "connect!") =>
        pexc.cls = "ConnectionError"

\* C23 (as claimed): lazy_pagination with a page size of zero or less and
\* stream_users_in_batches with a batch size of zero or less fail with a
\* ValidationError on the first pull, and that pull is the only one.
C23_NonPositiveSizeIsValidationError ==
    /\ (Batched /\ gsize <= 0 /\ PullOver(gpc)) =>
        (gpc = "failed" /\ gexc.cls = "ValidationError" /\ gpulls = 1)
    /\ (psize <= 0 /\ PullOver(ppc)) =>
        (ppc = "failed" /\ pexc.cls = "ValidationError" /\ ppulls = 1)

\* ====================================== transactional: failure of the store
\* C29 (as claimed): when the wrapped operation raises and the rollback that
\* follows fails too, the wrapper still closes the connection and the error
\* that reaches the caller is the error the operation raised.
C29_RollbackFailureKeepsOriginal ==
    (tpc = "done" /\ tfunc.outcome = "raised" /\ Count(tlog, {"rollback!"}) = 1) =>
        /\ ~tconn.open
        /\ Count(tlog, {"close"}) = 1
        /\ tout = Raised(tfunc.exc)

AllBefore(log, a, b) ==
    \A i, j \in 1..Len(log) : (log[i] \in a /\ log[j] \in b) => i < j
Began == Count(tlog, {"BEGIN"}) = 1
CommittedCall == Count(tlog, {"commit"}) = 1
RolledBackCall == Count(tlog, {"rollback"}) = 1

\* C30 (as claimed): BEGIN is issued before the wrapped operation runs; a
\* finished call that opened its connection ended in exactly one of
\* Committed and RolledBack and never had both a commit and a rollback
\* issued, also when the commit failed; close came after that outcome.
C30_Original ==
    (tpc = "done" /\ tlog # <<>>) =>
        /\ AllBefore(tlog, {"BEGIN"}, {"stmt"})
        /\ CommittedCall # RolledBackCall
        /\ ~(Issued(tlog, "commit") > 0 /\ Issued(tlog, "rollback") > 0)
        /\ Last(tlog) = "close"

\* C30 (amended): a call that opened its connection issues BEGIN first and
\* runs the operation only after BEGIN succeeded; it issues at most one
\* commit and at most one rollback, the commit only after the operation
\* returned; a rollback is issued exactly when BEGIN, the operation or the
\* commit failed, so a failed commit is followed by a rollback and a
\* successful commit by none; a finished call is either Committed, with the
\* operation's writes in the store, or has left the store as it was (rolled
\* back, or dropped by close when the rollback failed), and close is its
\* last store call, issued once.
C30_BeginOutcomeRelease ==
    (tlog # <<>>) =>
        /\ tlog[1] = "connect"
        /\ Issued(tlog, "BEGIN") <= 1
        /\ Count(tlog, {"stmt"}) > 0 => Began
        /\ AllBefore(tlog, {"BEGIN"}, {"stmt", "commit", "commit!"})
        /\ AllBefore(tlog, {"stmt"}, {"commit", "commit!", "rollback", "rollback!"})
        /\ AllBefore(tlog, {"commit!"}, {"rollback", "rollback!"})
        /\ Issued(tlog, "commit") <= 1
        /\ Issued(tlog, "rollback") <= 1
        /\ Issued(tlog, "commit") = 1 => tfunc.outcome = "returned"
        /\ CommittedCall => Issued(tlog, "rollback") = 0
        /\ tpc = "done" =>
            /\ (Issued(tlog, "rollback") = 1) =
                   (Count(tlog, {"BEGIN!", "commit!"}) > 0 \/ tfunc.outcome = "raised")
            /\ CommittedCall # (Issued(tlog, "rollback") = 1)
            /\ IF CommittedCall THEN tout.kind = "return" ELSE db = tdb0 /\ tout.kind = "raise"
            /\ Last(tlog) = "close"
            /\ Count(tlog, {"close"}) = 1
            /\ ~tconn.open

\* A call whose commit failed and was followed by a rollback.
C30_Witness ==
    /\ tpc = "done"
    /\ tfunc.dirty
    /\ Count(tlog, {"commit!"}) = 1
    /\ Count(tlog, {"rollback"}) = 1
    /\ Last(tlog) = "close"

\* ============================================= fetch_concurrently: claims
ConnsOf(k) == {c \in 1..Len(fconns) : fconns[c].owner = k}
OpenConns == {c \in 1..Len(fconns) : fconns[c].open}
Finished(k) == kpc[k] \in {"done", "failed"}

\* The task has issued the close of its connection, and the connection is
\* closed unless the store failed that very close.
ClosedItsOwn(k) ==
    \/ ConnsOf(k) = {}
    \/ /\ \E i \in 1..Len(flog) :
             flog[i] \in {Event(k, "close", kconn[k]), Event(k, "close!", kconn[k])}
       /\ kexc[k].src # "close" => ConnsOf(k) \cap OpenConns = {}

\* C21: the two queries of fetch_concurrently run as two tasks that never
\* share a connection: every store call on a connection is made by the task
\* that opened it, a task opens at most one connection and has closed it
\* when it ends (it has issued the close, and the connection is closed
\* unless that close itself failed), whatever the interleaving; and the
\* joined result exists only when both tasks have returned, and is their
\* two results in order.
C21_SeparateConnectionsJoinedAfterBoth ==
    /\ \A i \in 1..Len(flog) :
          flog[i].conn # 0 => fconns[flog[i].conn].owner = flog[i].task
    /\ \A k \in Tasks :
          /\ Cardinality(ConnsOf(k)) <= 1
          /\ kconn[k] # 0 => ConnsOf(k) = {kconn[k]}
          /\ Finished(k) => ClosedItsOwn(k)
          /\ kpc[k] = "done" => Cardinality(ConnsOf(k)) = 1
    /\ fout.kind = "return" =>
          /\ \A k \in Tasks : kpc[k] = "done"
          /\ OpenConns = {}
          /\ fout.value = <<ftable, SelectSeq(ftable, LAMBDA r : r.age > 40)>>

\* Both tasks had their connections open at the same time, and the joined
\* result was produced.
C21_Witness ==
    /\ fout.kind = "return"
    /\ Len(ftable) = 2
    /\ Len(fout.value[2]) = 1
    /\ flog[1].task = 2
    /\ flog[2] = Event(1, "connect", 2)
    /\ flog[3].task = 2

\* ===================================================== insert_data: claims
KeysOf(view) == {view[i].user_id : i \in 1..Len(view)}
NoKeyTwice(view) ==
    \A i, j \in 1..Len(view) : view[i].user_id = view[j].user_id => i = j

\* C24: insert_data is idempotent: a load of the file that was just loaded
\* issues no INSERT and leaves the table exactly as the first load left it;
\* a record whose user_id is present is skipped, so the rows that were there
\* when a load began stay as they were; and no user_id is inserted twice,
\* neither across loads nor when it is repeated within one file.
C24_LoadIsIdempotent ==
    /\ (lrepeat /\ lpc \in {"loading", "committed"}) => (lview = ltab0 /\ lins = <<>>)
    /\ (lrepeat /\ lpc = "committed") => utable = ltab0
    /\ IsPrefix(ltab0, lview)
    /\ NoKeyTwice(lview)
    /\ NoKeyTwice(utable)
    /\ \A i, j \in 1..Len(lins) : lins[i] = lins[j] => i = j
    /\ \A i \in 1..Len(lins) : lins[i] \notin KeysOf(ltab0)
    /\ lpc = "committed" => KeysOf(lview) = KeysOf(ltab0) \cup KeysOf(lfile)

\* The same two records loaded a second time; the first load had skipped
\* nothing.
C24_Witness ==
    /\ lrepeat
    /\ lpc = "committed"
    /\ Len(lfile) = 2
    /\ utable = lfile
    /\ li = 2

\* =============================================== access_nested_map: claims
RECURSIVE Followable(_, _)
Followable(m, p) ==
    \/ p = <<>>
    \/ /\ m.kind = "map"
       /\ Head(p) \in DOMAIN m.items
       /\ Followable(m.items[Head(p)], Tail(p))
RECURSIVE ValueAt(_, _)
ValueAt(m, p) == IF p = <<>> THEN m ELSE ValueAt(m.items[Head(p)], Tail(p))
\* The position of the first key of the path that cannot be followed.
FirstUnfollowable(m, p) ==
    CHOOSE i \in 1..Len(p) :
        /\ ~Followable(m, SubSeq(p, 1, i))
        /\ \A j \in 1..(i - 1) : Followable(m, SubSeq(p, 1, j))

\* C25: access_nested_map follows the path key by key; when every key can be
\* followed it returns the value reached, the map itself for an empty path;
\* otherwise it raises KeyError with the first key of the path at which the
\* key is absent or the current value is not a mapping.
C25_ValueOrFirstMissingKey ==
    /\ npc = "loop" =>
        (Followable(nmap0, SubSeq(path, 1, ni))
            /\ nested_map = ValueAt(nmap0, SubSeq(path, 1, ni)))
    /\ npc = "done" =>
        IF Followable(nmap0, path)
        THEN nout = Returned(ValueAt(nmap0, path))
        ELSE LET i == FirstUnfollowable(nmap0, path) IN
             nout = Raised(KeyError(path[i], i))

\* access_nested_map({"a": 1}, ("a", "b")) raised KeyError('b').
C25_Witness ==
    /\ npc = "done"
    /\ nmap0 = Map([k \in {"a"} |-> Leaf(1)])
    /\ path = <<"a", "b">>
    /\ nout = Raised(KeyError("b", 2))

\* ================================================ messaging_app: claims
\* The conversation the last create request was aimed at.
TargetConversation ==
    IF hreq.conversation_pk # NoId THEN hreq.conversation_pk ELSE hreq.payload_conversation

\* C26: every message in the response to a list request (plain, with a
\* conversation_id query parameter, on the nested route) or to a retrieve
\* request belongs to a conversation the requesting user participates in.
C26_OnlyMessagesOfOwnConversations ==
    hreq.op \in {"list", "retrieve"} =>
        \A k \in 1..Len(hresp.data) :
            IsParticipant(MsgOf(hresp.data[k]).conversation_id, hreq.user)

\* A plain list request answered with one of two stored messages: the other
\* one is in a conversation the user does not participate in, and was sent by
\* the user before leaving it.
C26_Witness ==
    /\ hreq.op = "list"
    /\ hreq.conversation_pk = NoId /\ hreq.conversation_id = NoId
    /\ Len(messages) = 2
    /\ Len(hresp.data) = 1
    /\ \E i \in 1..2 :
        /\ ~IsParticipant(messages[i].conversation_id, hreq.user)
        /\ messages[i].sender_id = hreq.user

\* C27: a list response holds at most page_size messages: the page_size
\* parameter of the request, cut off at 100, or 20 without one.
C27_ListIsPaginated ==
    hreq.op = "list" => Len(hresp.data) <= GetPageSize(hreq.page_size)

\* C28: a create request of a user who is not a participant of the
\* conversation is answered 403 with the detail "You are not a participant
\* in this conversation." and stores nothing, and the sender stored with a
\* created message is the requesting user.
C28_NonParticipantCreateIs403 ==
    [][hreq'.op = "create" =>
        /\ (ConvExists(TargetConversation') /\ ~IsParticipant(TargetConversation', hreq'.user)) =>
            /\ hresp'.status = 403
            /\ hresp'.detail = "You are not a participant in this conversation."
            /\ messages' = messages
        /\ hresp'.status = 201 =>
            /\ messages' = Append(messages, Message(sent', TargetConversation', hreq'.user))
            /\ hresp'.data = <<sent'>>]_vars

\* ================================= retry_db_operation: claims on the bound
\* C37: for every value of retries, zero and negative ones included, a
\* finished call of the retry wrapper has invoked the wrapped operation at
\* least once, and an error it ended with was raised by the operation.
C37_InvokedAtLeastOnce ==
    rpc = "done" =>
        /\ Invocations >= 1
        /\ rout.kind = "raise" => rout.exc.src = "func"

\* C38: a finished call of the retry wrapper that made k attempts slept
\* k - 1 times, each sleep after a failed attempt and before the next one:
\* the events of the call alternate and end with an attempt.
C38_SleepsOnlyBetweenAttempts ==
    (rpc = "done" /\ Invocations >= 1) =>
        /\ Sleeps = Invocations - 1
        /\ \A i \in 1..Len(rlog) : rlog[i] = (IF i % 2 = 1 THEN "call" ELSE "sleep")
        /\ rlog[Len(rlog)] = "call"

\* ======================================= cache_query: key, failures, hits
\* C32: the key of a call depends on its query text alone: finished calls
\* with one non-empty query text have one key, however the text was passed
\* and with or without with_db_connection on top, and calls with different
\* texts have different keys.
C32_KeyIsTheQuery ==
    \A r1 \in cret, r2 \in cret :
        (r1.query # 0 /\ r2.query # 0) => (r1.query = r2.query <=> r1.key = r2.key)

\* C35, one caller: when the operation raises, its error is the outcome of
\* the call and the call stores nothing; the cache holds the results of the
\* invocations that returned and nothing else; and the next call with the
\* same signature (the same non-empty query text) invokes the operation again: it
\* returns the result of a new invocation or raises that invocation's error.
C35_FailureIsNotCached ==
    /\ (cpc[1] \in {"exit", "done"} /\ cout[1].kind = "raise") =>
          /\ cout[1] = CRaised(Exc("OperationalError", "func", cinv))
          /\ ~CacheHit(cache, ckey[1])
    /\ cpc[1] # "store" =>
          /\ DOMAIN cache = {h.key : h \in {g \in chist : g.ok}}
          /\ \A k \in DOMAIN cache : \E h \in ReturnsOf(k) : cache[k] = Res(h.query, h.inv)
    /\ \A r1 \in cret, r2 \in cret :
          (r1.out.kind = "raise" /\ r2.n = r1.n + 1 /\ r2.query = r1.query /\ r1.query # 0) =>
              /\ \E h \in InvocationsFor(r2.query) : h.inv = r1.out.exc.at + 1
              /\ r2.out.kind = "return" => r2.out.res = Res(r2.query, r1.out.exc.at + 1)
              /\ r2.out.kind = "raise" => r2.out.exc.at = r1.out.exc.at + 1

\* The call of caller t is about to return a stored result: it took line 17
\* and has not invoked the operation.
ServedFromCache(t) ==
    /\ cpc[t] = "exit"
    /\ cout[t].kind = "return"
    /\ cresult[t] = NoRes
\* C36: a call of fetch_users_with_cache (with_db_connection outside
\* cache_query) that is served from the cache, without invoking the query,
\* has opened no connection.
C36_HitOpensNoConnection ==
    \A t \in Callers :
        (ccall[t].stacked /\ ServedFromCache(t)) =>
            /\ ccall[t].conn = 0
            /\ copen = {}

\* ============================================ lazy_pagination: more claims
\* C33: over a fixed table and with page_size > 0, the k-th page fetch uses
\* the offset (k-1)*page_size, every yielded page has between one and
\* page_size rows, and the pages are the table cut into consecutive pieces:
\* what has been yielded is a prefix of the table, and all of it at the end.
C33_PagesTileTheDataset ==
    (ppc # "none" /\ psize > 0) =>
        /\ ppc \in {"connect", "execute", "fetchall", "close"} =>
              offset = (ppulls - 1) * psize
        /\ \A i \in 1..Len(pout) :
              /\ Len(pout[i]) >= 1
              /\ Len(pout[i]) <= psize
              /\ pout[i] = LimitOffset(pdata, psize, (i - 1) * psize)
        /\ IsPrefix(Concat(pout), pdata)
        /\ ppc = "done" => Concat(pout) = pdata

\* Three rows in pages of two, to the end: the third fetch, at offset 4,
\* came back empty.
C33_Witness ==
    /\ ppc = "done"
    /\ psize = 2
    /\ Len(pdata) = 3
    /\ Len(pout) = 2
    /\ Len(pout[2]) = 1
    /\ offset = 4
    /\ ppulls = 3

\* C34: in one traversal of lazy_pagination, with other clients inserting
\* and deleting rows between the page fetches, no row is yielded twice, and
\* at the end every row that was in the table from the call on (its id is
\* at least 1 and it is still there) has been yielded.
C34_NoRowTwiceNoneSkipped ==
    (ppc # "none" /\ psize > 0) =>
        LET seen == Concat(pout) IN
        /\ \A i \in 1..Len(seen), j \in 1..Len(seen) : i # j => seen[i].id # seen[j].id
        /\ ppc = "done" =>
              \A k \in 1..Len(pdata) :
                  pdata[k].id >= 1 => \E i \in 1..Len(seen) : seen[i].id = pdata[k].id

\* ===================================== fetch_concurrently: a failing task
\* C40: when a task of fetch_concurrently has failed, the call ends with
\* that failure and with no joined result, and when the failure reaches the
\* caller both tasks have ended and no connection either of them opened is
\* open.
C40_FailureAfterBothTasksEnded ==
    /\ (fpc = "done" /\ ferr # NoExc) => fout = Raised(ferr)
    /\ fout.kind = "raise" =>
          /\ fout.exc \in {kexc[k] : k \in Tasks}
          /\ \A k \in Tasks : Finished(k)
          /\ OpenConns = {}

\* ============================================== stacked decorators: claims
ConnectionsOf(log) == {log[i].conn : i \in {j \in 1..Len(log) : log[j].op = "connect"}}
TransactionOps == {"BEGIN", "BEGIN!", "stmt", "stmt!", "commit", "commit!", "rollback", "rollback!"}

\* C31: a finished call of update_user_email, under transactional alone or
\* under with_db_connection and transactional as decorated in the source,
\* has opened at most one connection, has opened exactly one when it got as
\* far as BEGIN, and BEGIN, the statements and the commit or rollback were
\* all issued on that connection.
C31_OneConnectionPerCall ==
    upc = "done" =>
        /\ Cardinality(ConnectionsOf(ulog)) <= 1
        /\ \A i \in 1..Len(ulog) :
              ulog[i].op \in TransactionOps => ConnectionsOf(ulog) = {ulog[i].conn}

\* C39: when a with statement over ExecuteQuery is over, however it ended
\* (the body completed, the body raised, the query failed in __enter__),
\* the cursor and the connection it opened have been closed by it.
C39_ClosedOnEveryExit ==
    epc = "done" =>
        /\ econn \in {"none", "closed"}
        /\ ecursor \in {"none", "closed"}
        /\ econn = "closed" => Last(elog) = "close"

====
